---- MODULE Spec2Model ----
(***************************************************************************)
(* Notification-to-delivery pipeline of the mail collector: the webhook    *)
(* gateway (router.post("/mail"), enqueueNotification), the Bull forward   *)
(* queue and its processor, the delivery ledger (mail_message_log), and    *)
(* the subscription manager with its renewal planner.                      *)
(***************************************************************************)
EXTENDS Integers, Sequences, FiniteSets, TLC

\* JavaScript undefined / a missing field.
NoValue == "undefined"

Accounts == {"a1", "a2"}
Messages == {"m1", "m2"}
Requests == {1, 2}
\* Invocations of the forward processor that Bull could run side by side; the
\* queue's concurrency setting decides how many of them it uses.
Slots == {1, 2}

\* Largest number of entries in one notification batch.
MaxBatch == 2
\* Largest number of notification entries received over all requests.
MaxEntries == 2
\* Number of logForward calls made by the polling sync path.
MaxLogCalls == 2

Statuses == {"PENDING", "CONNECTED", "NEEDS_REAUTH", "ERROR", "DISABLED"}

VARIABLES
  mailAccount,          \* table mail_accounts: accountId -> row
  webhookSubscription,  \* table webhook_subscriptions: set of rows
  mailMessageLog,       \* table mail_message_log: set of rows (the ledger)
  forwardQueue,         \* Bull queue "webhook-forward": wait, active, failed
  worker,               \* the forwardQueue processor's position and locals
  req,                  \* the webhook requests in flight and their responses
  received,             \* notification entries received so far
  logger,               \* a logForward call of the polling path in flight
  logCalls,             \* logForward calls started so far
  forwardCalls,         \* provider forward calls issued, per (account, message)
  notices,              \* operator notifications triggered
  validated,            \* the validateNotification call made last
  now,                  \* the clock, in minutes since the renewal worker started
  planDue,              \* the maintenance planner is due to run
  syncQueue,            \* Bull queue "mail-sync": wait, completed, failed
  provider,             \* the subscriptions the mail provider holds
  issued,               \* subscriptions issued so far (ids, client states)
  faults,               \* provider or token failures still to come
  renewal,              \* the renewSubscription call made last
  mailToken,            \* table mail_tokens: accountId -> row, or none
  tokenCall,            \* the getValidAccessToken call made last
  refreshCalls,         \* refresh exchanges sent to the identity provider
  steamConfig,          \* the filter's settings, read from the environment
  filtered,             \* the isSteamMessage call made last
  schedule,             \* the worker process and the queue's repeatable jobs
  maxRetries,           \* config.worker.maxRetries
  sweep,                \* the retry sweeps in flight
  mailbox,              \* the messages each mailbox holds at the provider
  mailSyncState,        \* table mail_sync_state: the accounts with a cursor row
  oauth,                \* the re-auth link's last response and the callback
  pollQueue,            \* the polling worker's queue: its jobs and its clock
  cycle,                \* the scheduling cycles of the polling worker
  serviceCalls,         \* the service calls in flight, and where each stands
  systemSetting,        \* table system_settings: the value of forwardToEmail
  forwardToCache        \* the forwarder's cached address and its time

\* The variables of the delivery pipeline, and those of subscription upkeep.
deliveryVars == <<mailMessageLog, forwardQueue, worker, req, received, logger,
                  logCalls, forwardCalls, notices>>

upkeepVars == <<validated, now, planDue, syncQueue, provider, issued, faults,
                renewal>>

\* The variables of the services beside the two: the token store, the
\* content filter, the planner's schedule and the retry sweep.
tokenVars == <<mailToken, tokenCall, refreshCalls>>

filterVars == <<steamConfig, filtered>>

sweepVars == <<maxRetries, sweep>>

\* What lies beside the pipeline: the mailboxes at the provider, the cursor
\* table, the re-auth flow and the polling worker.
edgeVars == <<mailbox, mailSyncState, oauth, pollQueue, cycle>>

\* The calls that run beside the workers, and the forwarding address.
callVars == <<serviceCalls, systemSetting, forwardToCache>>

serviceVars == <<tokenVars, filterVars, schedule, sweepVars, edgeVars,
                 callVars>>

vars == <<mailAccount, webhookSubscription, deliveryVars, upkeepVars,
          serviceVars>>

----------------------------------------------------------------------------
(* Pure helpers *)

Min(S) == CHOOSE x \in S : \A y \in S : x <= y

\* The last n elements of a sequence.
LastN(s, n) == IF Len(s) <= n THEN s ELSE SubSeq(s, Len(s) - n + 1, Len(s))

\* resource?.split("/messages/")[1]: what follows the first "/messages/", which
\* is case-sensitive and needs a segment on either side. A resource is modelled
\* as its sequence of segments (the message id being the last one) and a
\* missing resource as the empty sequence.
SplitMessages(resource) ==
  LET idx == {i \in 2..(Len(resource) - 1) : resource[i] = "messages"}
  IN  IF idx = {} THEN NoValue ELSE resource[Min(idx) + 1]

\* const messageId = resourceData?.id || resource?.split("/messages/")[1]
ExtractMessageId(n) ==
  IF n.resourceDataId # NoValue THEN n.resourceDataId
  ELSE SplitMessages(n.resource)

ResourceValues ==
  { << >>, <<"me", "messages", "m2">>, <<"Users", "u1", "Messages", "m1">> }

\* The notification entries a request body may carry.
Notifications ==
  [ subscriptionId : {"s1", "s2", "sX", NoValue},
    clientState    : {"k1", "k2", "", NoValue},
    resourceDataId : {"m1", NoValue},
    resource       : ResourceValues ]

\* A faulty variant of the validation that does not compare the clientState.
validateBySubscriptionId(rows, clientState, subscriptionId) ==
  {s \in rows : s.subscriptionId = subscriptionId}

\* WebhookService.validateNotification: the row as a set of at most one element.
validateNotification(rows, clientState, subscriptionId) ==
  LET found == {s \in rows : s.subscriptionId = subscriptionId}
  IN  IF found = {} THEN {}
      ELSE {s \in found : s.clientState = clientState}

\* A faulty variant of the account check that looks at isEnabled only.
AccountEnabledOnly(account) == account.isEnabled

\* if (!account || account.status !== "CONNECTED" || !account.isEnabled) return
AccountActive(account) ==
  account.status = "CONNECTED" /\ account.isEnabled

\* jobId: `${accountId}:${messageId}`
JobId(accountId, messageId) == accountId \o ":" \o messageId

MakeJob(accountId, messageId) ==
  [ jobId |-> JobId(accountId, messageId),
    accountId |-> accountId, messageId |-> messageId ]

\* removeOnFail: 100 -- the queue keeps the last 100 failed jobs.
KeepFailed == 100

\* Bull keeps a job's key while the job is waiting, active or kept after failing.
JobExists(q, jobId) ==
  \/ \E i \in 1..Len(q.wait) : q.wait[i].jobId = jobId
  \/ \E j \in q.active : j.jobId = jobId
  \/ \E i \in 1..Len(q.failed) : q.failed[i].jobId = jobId

\* A faulty variant of add that ignores the job id.
QueueAddAlways(q, job) == [q EXCEPT !.wait = Append(@, job)]

\* forwardQueue.add(data, { jobId }): a job whose id exists is not added.
QueueAdd(q, job) ==
  IF JobExists(q, job.jobId) THEN q
  ELSE [q EXCEPT !.wait = Append(@, job)]

\* A faulty variant that files a finished job with the failed ones.
QueueCompleteAsFailed(q, job) ==
  [q EXCEPT !.active = @ \ {job}, !.failed = Append(@, job)]

\* removeOnComplete: true -- a completed job leaves the queue at once.
QueueComplete(q, job) == [q EXCEPT !.active = @ \ {job}]

QueueFail(q, job) ==
  [q EXCEPT !.active = @ \ {job},
            !.failed = LastN(Append(@, job), KeepFailed)]

\* forwardQueue.process(1, ...): the processor's concurrency.
ForwardConcurrency == 1

\* A faulty variant that hands out jobs whatever the number of active ones.
CanTakeWaiting(q) == Len(q.wait) > 0

CanTakeJob(q) == Len(q.wait) > 0 /\ Cardinality(q.active) < ForwardConcurrency

AUTH_ERROR_CODES ==
  { "ErrorAccountSuspend", "ErrorExceededMessageLimit",
    "InvalidAuthenticationToken", "CompactToken.Validation",
    "InvalidSubscription" }

\* Errors a provider call can end with: HTTP status (0: no response) and code.
Errors ==
  { [status |-> 403, code |-> "ErrorExceededMessageLimit"],
    [status |-> 500, code |-> ""],
    [status |-> 0,   code |-> ""] }

NoError == [status |-> -1, code |-> ""]

\* A faulty variant that knows the expired token only.
isUnauthorized(error) == error.status = 401

isAuthOrSuspendError(error) ==
  \/ error.status = 401
  \/ error.status = 403
  \/ error.status = 429
  \/ error.code \in AUTH_ERROR_CODES

----------------------------------------------------------------------------
(* The webhook endpoint: router.post("/mail") *)

\* A faulty variant of the handshake test that inverts it.
TokenMissing(token) == token = NoValue \/ token = ""

\* if (req.query.validationToken): an absent or empty token is falsy.
IsValidationRequest(token) == token # NoValue /\ token # ""

Tokens == {NoValue, "", "abc123"}

\* Shapes of req.body?.value: missing, [], a list of entries, or a value that is
\* truthy but neither has a length nor can be iterated (an object, a number).
BodyShapes == {"missing", "empty", "list", "scalar"}

Response(status, contentType, body) ==
  [status |-> status, contentType |-> contentType, body |-> body]

Accepted == Response(202, NoValue, "")

\* A faulty variant of the outer catch that answers without looking at
\* res.headersSent.
OnHandlerErrorAlwaysSend(responses) == Append(responses, Accepted)

\* The outer catch: if (!res.headersSent) res.status(202).send()
OnHandlerError(responses) ==
  IF Len(responses) > 0 THEN responses ELSE Append(responses, Accepted)

NoAccount == [status |-> NoValue, isEnabled |-> FALSE]

\* A request: the handler's position, its query token, the entries left in its
\* batch, the locals of enqueueNotification (subscription.accountId, account,
\* messageId), what became of the entry handled last (the handler's console
\* line), and the responses sent.
IdleRequest ==
  [ pc |-> "idle", token |-> NoValue, remaining |-> 0,
    accountId |-> NoValue, account |-> NoAccount, messageId |-> NoValue,
    last |-> NoValue, responses |-> << >> ]

\* A faulty variant of the loop without its try/catch: an entry that raises
\* ends the handler, whatever is left of the batch.
NextEntryAbort(rq, outcome) ==
  [rq EXCEPT !.pc = IF rq.remaining > 1 /\ outcome # "raised"
                    THEN "validate" ELSE "done",
             !.remaining = rq.remaining - 1,
             !.accountId = NoValue, !.account = NoAccount,
             !.messageId = NoValue, !.last = outcome]

\* The loop of the handler moves to its next entry, or the handler ends.
NextEntry(rq, outcome) ==
  [rq EXCEPT !.pc = IF rq.remaining > 1 THEN "validate" ELSE "done",
             !.remaining = rq.remaining - 1,
             !.accountId = NoValue, !.account = NoAccount,
             !.messageId = NoValue, !.last = outcome]

\* A faulty variant that enters the loop without having answered.
StartLoopUnanswered(rq, n) == [rq EXCEPT !.pc = "validate", !.remaining = n]

\* res.status(202).send(), and then the loop over the n entries begins.
StartLoop(rq, n) ==
  [rq EXCEPT !.pc = "validate", !.remaining = n, !.responses = <<Accepted>>]

\* The handler up to its first await: the validation handshake, the empty
\* batch, or the 202 followed by the start of the loop over the entries.
RouterPostMail(r) ==
  /\ req[r].pc = "idle"
  /\ \A o \in Requests : o < r => req[o].pc # "idle"
  /\ \E token \in Tokens, shape \in BodyShapes :
       \/ /\ IsValidationRequest(token)
          /\ req' = [req EXCEPT ![r] = [@ EXCEPT !.pc = "done", !.token = token,
               !.responses = <<Response(200, "text/plain", token)>>]]
          /\ UNCHANGED received
       \/ /\ ~IsValidationRequest(token)
          /\ shape \in {"missing", "empty"}
          /\ req' = [req EXCEPT ![r] = [@ EXCEPT !.pc = "done", !.token = token,
               !.responses = <<Accepted>>]]
          /\ UNCHANGED received
       \/ /\ ~IsValidationRequest(token)
          /\ shape = "scalar"
          /\ req' = [req EXCEPT ![r] = [@ EXCEPT !.pc = "done", !.token = token,
               !.last = "not iterable",
               !.responses = OnHandlerError(<<Accepted>>)]]
          /\ UNCHANGED received
       \/ /\ ~IsValidationRequest(token)
          /\ shape = "list"
          /\ \E n \in 1..MaxBatch :
               /\ received + n <= MaxEntries
               /\ req' = [req EXCEPT ![r] =
                    StartLoop([@ EXCEPT !.token = token], n)]
               /\ received' = received + n
  /\ UNCHANGED <<upkeepVars, serviceVars>>
  /\ UNCHANGED <<mailAccount, webhookSubscription, mailMessageLog,
                 forwardQueue, worker, logger, logCalls, forwardCalls, notices>>

\* What the validation of entry n makes of a request: the entry is dropped
\* (the lookup by a missing subscriptionId raises and the loop catches it, or
\* the notification is invalid), or the account of the subscription is next.
Validated(rq, n) ==
  LET subscription ==
        validateNotification(webhookSubscription, n.clientState,
                             n.subscriptionId)
  IN  IF n.subscriptionId = NoValue THEN NextEntry(rq, "raised")
      ELSE IF subscription = {} THEN NextEntry(rq, "invalid")
      ELSE [rq EXCEPT !.pc = "account",
              !.accountId = (CHOOSE s \in subscription : TRUE).accountId,
              !.messageId = ExtractMessageId(n)]

\* enqueueNotification, first await: webhookService.validateNotification, for
\* any entry the batch may carry.
EnqueueValidate(r) ==
  /\ req[r].pc = "validate"
  /\ \E next \in {Validated(req[r], n) : n \in Notifications} :
       req' = [req EXCEPT ![r] = next]
  /\ UNCHANGED <<upkeepVars, serviceVars>>
  /\ UNCHANGED <<mailAccount, webhookSubscription, mailMessageLog,
                 forwardQueue, worker, received, logger, logCalls,
                 forwardCalls, notices>>

\* enqueueNotification, second await: the account is loaded and checked, then
\* the message id is required.
EnqueueLoadAccount(r) ==
  /\ req[r].pc = "account"
  /\ LET account == [status |-> mailAccount[req[r].accountId].status,
                     isEnabled |-> mailAccount[req[r].accountId].isEnabled]
     IN  req' = [req EXCEPT ![r] =
           IF ~AccountActive(account) THEN NextEntry(@, "not active")
           ELSE IF @.messageId = NoValue THEN NextEntry(@, "no message id")
           ELSE [@ EXCEPT !.pc = "add", !.account = account]]
  /\ UNCHANGED <<upkeepVars, serviceVars>>
  /\ UNCHANGED <<mailAccount, webhookSubscription, mailMessageLog,
                 forwardQueue, worker, received, logger, logCalls,
                 forwardCalls, notices>>

\* What forwardQueue.add meets: no job of that id, one that is waiting or
\* active, or one kept after it failed.
AddOutcome(q, jobId) ==
  IF ~JobExists(q, jobId) THEN "added"
  ELSE IF \E i \in 1..Len(q.failed) : q.failed[i].jobId = jobId
  THEN "kept failed" ELSE "pending"

\* enqueueNotification, third await: forwardQueue.add with the job id.
EnqueueAdd(r) ==
  /\ req[r].pc = "add"
  /\ LET job == MakeJob(req[r].accountId, req[r].messageId)
     IN  /\ forwardQueue' = QueueAdd(forwardQueue, job)
         /\ req' = [req EXCEPT ![r] =
              NextEntry(@, AddOutcome(forwardQueue, job.jobId))]
  /\ UNCHANGED <<upkeepVars, serviceVars>>
  /\ UNCHANGED <<mailAccount, webhookSubscription, mailMessageLog, worker,
                 received, logger, logCalls, forwardCalls, notices>>

----------------------------------------------------------------------------
(* The delivery ledger: mail_message_log *)

LogRows(rows, accountId, messageId) ==
  {row \in rows : row.accountId = accountId /\ row.graphMessageId = messageId}

\* A table without the unique index: every insert is accepted.
UniqueKeyUnchecked(rows, accountId, messageId) == TRUE

\* UNIQUE INDEX mail_message_log_accountId_graphMessageId_key: an insert is
\* accepted only if no row holds the pair.
UniqueKeyFree(rows, accountId, messageId) ==
  LogRows(rows, accountId, messageId) = {}

\* id: a primary key no other row has.
NewLogId(rows, accountId, messageId) ==
  <<accountId, messageId, Cardinality(LogRows(rows, accountId, messageId)) + 1>>

\* The create branch of the upserts.
CreatedRow(rows, accountId, messageId, status, error) ==
  [ id |-> NewLogId(rows, accountId, messageId),
    accountId |-> accountId, graphMessageId |-> messageId,
    forwardedTo |-> NoValue, forwardStatus |-> status, attempts |-> 1,
    lastAttemptAt |-> now, error |-> error ]

\* A faulty variant of the update branch that writes the row anew, as the
\* create branch of the processor's upsert would.
UpdateRowsAnew(rows, accountId, messageId, status, error) ==
  { IF row.accountId = accountId /\ row.graphMessageId = messageId
    THEN [row EXCEPT !.forwardedTo = NoValue, !.forwardStatus = status,
                     !.attempts = @ + 1, !.lastAttemptAt = now,
                     !.error = error]
    ELSE row : row \in rows }

\* The update branch of the upserts, applied to the row holding the pair.
UpdateRows(rows, accountId, messageId, status, error) ==
  { IF row.accountId = accountId /\ row.graphMessageId = messageId
    THEN [row EXCEPT !.forwardStatus = status, !.attempts = @ + 1,
                     !.lastAttemptAt = now, !.error = error]
    ELSE row : row \in rows }

----------------------------------------------------------------------------
(* The forward queue's processor: forwardQueue.process(1, async (job) => ...) *)

NoJob == [jobId |-> NoValue, accountId |-> NoValue, messageId |-> NoValue]

IdleWorker == [pc |-> "idle", job |-> NoJob, error |-> NoError, found |-> FALSE]

\* Bull hands the oldest waiting job to the processor while the processor runs
\* fewer jobs than its concurrency.
ProcessTake(w) ==
  /\ worker[w].pc = "idle"
  /\ \A o \in Slots : o < w => worker[o].pc # "idle"
  /\ CanTakeJob(forwardQueue)
  /\ LET job == Head(forwardQueue.wait)
     IN  /\ forwardQueue' = [forwardQueue EXCEPT !.wait = Tail(@),
                                                 !.active = @ \cup {job}]
         /\ worker' = [worker EXCEPT ![w] =
              [IdleWorker EXCEPT !.pc = "preview", !.job = job]]
  /\ UNCHANGED <<upkeepVars, serviceVars>>
  /\ UNCHANGED <<mailAccount, webhookSubscription, mailMessageLog, req,
                 received, logger, logCalls, forwardCalls, notices>>

\* What graphService.getMessagePreview followed by the filter can yield: no
\* message (NOT_FOUND), a preview the filter rejects (SKIPPED), or a preview
\* it accepts.
PreviewOutcomes == {"NOT_FOUND", "SKIPPED", "MATCH"}

\* A faulty variant of the preview read that answers for a message that is
\* gone as for one that is there.
getMessagePreviewAlways(box, messageId) == messageId

\* graphService.getMessagePreview(accountId, messageId): the preview of the
\* message, or nothing when the provider reports that the mailbox no longer
\* holds it.
getMessagePreview(box, messageId) ==
  IF messageId \in box THEN messageId ELSE NoValue

\* Steps 1 and 2: the preview and the Steam-only filter.
ProcessPreview(w) ==
  /\ worker[w].pc = "preview"
  /\ \/ \E outcome \in PreviewOutcomes :
          /\ (outcome = "NOT_FOUND") <=>
                (getMessagePreview(mailbox[worker[w].job.accountId],
                                   worker[w].job.messageId) = NoValue)
          /\ IF outcome = "MATCH"
             THEN /\ worker' = [worker EXCEPT ![w].pc = "forward"]
                  /\ UNCHANGED forwardQueue
             ELSE /\ worker' = [worker EXCEPT ![w] = IdleWorker]
                  /\ forwardQueue' =
                       QueueComplete(forwardQueue, worker[w].job)
     \/ \E e \in Errors :
          /\ worker' = [worker EXCEPT ![w].pc = "catch", ![w].error = e]
          /\ UNCHANGED forwardQueue
  /\ UNCHANGED <<upkeepVars, serviceVars>>
  /\ UNCHANGED <<mailAccount, webhookSubscription, mailMessageLog, req,
                 received, logger, logCalls, forwardCalls, notices>>

\* The owner of the mailbox deletes a message whose notification is queued
\* and whose preview has not been read yet.
DeleteMessage(a, m) ==
  /\ m \in mailbox[a]
  /\ \/ \E i \in 1..Len(forwardQueue.wait) :
          /\ forwardQueue.wait[i].accountId = a
          /\ forwardQueue.wait[i].messageId = m
     \/ \E w \in Slots :
          /\ worker[w].pc = "preview"
          /\ worker[w].job.accountId = a
          /\ worker[w].job.messageId = m
  /\ mailbox' = [mailbox EXCEPT ![a] = @ \ {m}]
  /\ UNCHANGED <<mailAccount, webhookSubscription, deliveryVars, upkeepVars,
                 tokenVars, filterVars, schedule, sweepVars, mailSyncState,
                 oauth, pollQueue, cycle,
                 callVars>>

\* The provider's forward endpoint is reached unless the call ends without an
\* HTTP response.
ForwardIssued(e) == e.status # 0

CountForward(calls, job) ==
  [calls EXCEPT ![<<job.accountId, job.messageId>>] = @ + 1]

\* Step 3: forwarderService.forwardGraphMessage.
ProcessForward(w) ==
  /\ worker[w].pc = "forward"
  /\ \/ /\ worker' = [worker EXCEPT ![w].pc = "update"]
        /\ forwardCalls' = CountForward(forwardCalls, worker[w].job)
     \/ \E e \in Errors :
          /\ worker' = [worker EXCEPT ![w].pc = "catch", ![w].error = e]
          /\ forwardCalls' = IF ForwardIssued(e)
                             THEN CountForward(forwardCalls, worker[w].job)
                             ELSE forwardCalls
  /\ UNCHANGED <<upkeepVars, serviceVars>>
  /\ UNCHANGED <<mailAccount, webhookSubscription, mailMessageLog,
                 forwardQueue, req, received, logger, logCalls, notices>>

\* Steps 4 and 5: the counters of the account (no ledger row is written on
\* success), the delay, and the job returns FORWARDED and is removed.
ProcessUpdate(w) ==
  /\ worker[w].pc = "update"
  /\ mailAccount' = [mailAccount EXCEPT
       ![worker[w].job.accountId].forwardedCount = @ + 1]
  /\ forwardQueue' = QueueComplete(forwardQueue, worker[w].job)
  /\ worker' = [worker EXCEPT ![w] = IdleWorker]
  /\ UNCHANGED <<upkeepVars, serviceVars>>
  /\ UNCHANGED <<webhookSubscription, mailMessageLog, req, received, logger,
                 logCalls, forwardCalls, notices>>

\* catch: prisma.mailMessageLog.upsert reads the row of the pair ...
CatchFind(w) ==
  /\ worker[w].pc = "catch"
  /\ worker' = [worker EXCEPT ![w].pc = "catch_write",
       ![w].found = LogRows(mailMessageLog, worker[w].job.accountId,
                            worker[w].job.messageId) # {}]
  /\ UNCHANGED <<upkeepVars, serviceVars>>
  /\ UNCHANGED <<mailAccount, webhookSubscription, mailMessageLog,
                 forwardQueue, req, received, logger, logCalls, forwardCalls,
                 notices>>

\* ... and then updates it or creates it. A create that meets a row stored in
\* between violates the unique index: the upsert raises inside the catch block
\* and the job fails without the steps that follow.
CatchWrite(w) ==
  /\ worker[w].pc = "catch_write"
  /\ LET a == worker[w].job.accountId
         m == worker[w].job.messageId
     IN  IF worker[w].found
         THEN /\ mailMessageLog' =
                   UpdateRows(mailMessageLog, a, m, "FAILED", worker[w].error)
              /\ worker' = [worker EXCEPT ![w].pc = "catch_notify"]
              /\ UNCHANGED forwardQueue
         ELSE IF UniqueKeyFree(mailMessageLog, a, m)
         THEN /\ mailMessageLog' = mailMessageLog \cup
                   {CreatedRow(mailMessageLog, a, m, "FAILED", worker[w].error)}
              /\ worker' = [worker EXCEPT ![w].pc = "catch_notify"]
              /\ UNCHANGED forwardQueue
         ELSE /\ forwardQueue' = QueueFail(forwardQueue, worker[w].job)
              /\ worker' = [worker EXCEPT ![w] = IdleWorker]
              /\ UNCHANGED mailMessageLog
  /\ UNCHANGED <<upkeepVars, serviceVars>>
  /\ UNCHANGED <<mailAccount, webhookSubscription, req, received, logger,
                 logCalls, forwardCalls, notices>>

\* catch: the failed counter of the account; an auth/suspend/quota error marks
\* the account ERROR and sends the re-auth notice, any other error notifies the
\* developer; the error is thrown again and the job fails.
CatchNotify(w) ==
  /\ worker[w].pc = "catch_notify"
  /\ IF isAuthOrSuspendError(worker[w].error)
     THEN /\ mailAccount' = [mailAccount EXCEPT
               ![worker[w].job.accountId].failedForwardCount = @ + 1,
               ![worker[w].job.accountId].status = "ERROR"]
          /\ notices' = [notices EXCEPT !.reauth = @ + 1]
     ELSE /\ mailAccount' = [mailAccount EXCEPT
               ![worker[w].job.accountId].failedForwardCount = @ + 1]
          /\ notices' = [notices EXCEPT !.dev = @ + 1]
  /\ forwardQueue' = QueueFail(forwardQueue, worker[w].job)
  /\ worker' = [worker EXCEPT ![w] = IdleWorker]
  /\ UNCHANGED <<upkeepVars, serviceVars>>
  /\ UNCHANGED <<webhookSubscription, mailMessageLog, req, received, logger,
                 logCalls, forwardCalls>>

----------------------------------------------------------------------------
(* ForwarderService.logForward, as the polling sync path calls it *)

\* getForwardToEmail(): the forwardToEmail setting, or the configured address
\* when the setting is not there; the operator may change it at any time.
ForwardTargets == {"ops@example.com", "desk@example.com"}

IdleLogger ==
  [ pc |-> "idle", accountId |-> NoValue, messageId |-> NoValue,
    status |-> NoValue, forwardTo |-> NoValue, found |-> FALSE ]

\* logForward(accountId, message, status): the upsert reads the row ...
LogForwardFind ==
  /\ logger.pc = "idle"
  /\ logCalls < MaxLogCalls
  /\ \E a \in Accounts, m \in Messages, status \in {"FORWARDED", "FAILED"},
        forwardTo \in ForwardTargets :
       logger' = [ pc |-> "write", accountId |-> a, messageId |-> m,
                   status |-> status, forwardTo |-> forwardTo,
                   found |-> LogRows(mailMessageLog, a, m) # {} ]
  /\ logCalls' = logCalls + 1
  /\ UNCHANGED <<upkeepVars, serviceVars>>
  /\ UNCHANGED <<mailAccount, webhookSubscription, mailMessageLog,
                 forwardQueue, worker, req, received, forwardCalls, notices>>

\* FOREIGN KEY mail_message_log_accountId_fkey: a row is accepted only for an
\* account that has its row in mail_accounts.
AccountExists(accountId) == mailAccount[accountId] # NoAccount

\* ... and updates or creates it; a create that violates the unique index or
\* the foreign key raises and stores nothing.
LogForwardWrite ==
  /\ logger.pc = "write"
  /\ LET a == logger.accountId
         m == logger.messageId
     IN  \/ /\ logger.found
            /\ mailMessageLog' =
                 UpdateRows(mailMessageLog, a, m, logger.status, NoError)
         \/ /\ ~logger.found
            /\ UniqueKeyFree(mailMessageLog, a, m)
            /\ AccountExists(a)
            /\ mailMessageLog' = mailMessageLog \cup
                 {[CreatedRow(mailMessageLog, a, m, logger.status, NoError)
                     EXCEPT !.forwardedTo = logger.forwardTo]}
         \/ /\ ~logger.found
            /\ ~(UniqueKeyFree(mailMessageLog, a, m) /\ AccountExists(a))
            /\ UNCHANGED mailMessageLog
  /\ logger' = IdleLogger
  /\ UNCHANGED <<upkeepVars, serviceVars>>
  /\ UNCHANGED <<mailAccount, webhookSubscription, forwardQueue, worker, req,
                 received, logCalls, forwardCalls, notices>>

----------------------------------------------------------------------------
(* Operator action: PATCH /api/accounts/:id *)

UpdateAccount(a) ==
  /\ \E isEnabled \in BOOLEAN :
       /\ isEnabled # mailAccount[a].isEnabled
       /\ mailAccount' = [mailAccount EXCEPT ![a].isEnabled = isEnabled]
  /\ UNCHANGED <<upkeepVars, serviceVars>>
  /\ UNCHANGED <<webhookSubscription, mailMessageLog, forwardQueue, worker,
                 req, received, logger, logCalls, forwardCalls, notices>>

----------------------------------------------------------------------------
(* WebhookService: the subscriptions and their provider *)

SubscriptionRow(accountId, subscriptionId, clientState, expiresAt) ==
  [ accountId |-> accountId, subscriptionId |-> subscriptionId,
    clientState |-> clientState, expiresAt |-> expiresAt ]

\* this.subscriptionLifetimeMinutes
subscriptionLifetimeMinutes == 4230

\* getExpirationDateTime: the expiry asked for by a call made at time t.
getExpirationDateTime(t) == t + subscriptionLifetimeMinutes

\* generateClientState: crypto.randomBytes(32), a value not issued before.
generateClientState(n) == "k" \o ToString(n)

\* The id the provider gives to the n-th subscription it creates.
ProviderSubscriptionId(n) == "s" \o ToString(n)

\* The provider holds a subscription until its expiry has passed.
ProviderLive(subs, subscriptionId, t) ==
  \E p \in subs : p.id = subscriptionId /\ p.expiresAt >= t

\* The answers of a call: success, or an error with its HTTP status (0: no
\* response, as when the access token cannot be obtained) and code.
Ok == [status |-> 200, code |-> ""]

NotFound == [status |-> 404, code |-> ""]

CallFaults ==
  { NotFound,
    [status |-> 400, code |-> ""],
    [status |-> 410, code |-> "InvalidSubscription"],
    [status |-> 503, code |-> ""],
    [status |-> 0,   code |-> ""] }

\* The provider's answer to PATCH /subscriptions/{id} when nothing fails.
PatchAnswer(subs, subscriptionId, t) ==
  IF ProviderLive(subs, subscriptionId, t) THEN Ok ELSE NotFound

\* A faulty variant of the catch that recreates on 404 only.
RecreateOnNotFound(error) == error.status = 404

\* A faulty variant of the catch that recreates after every failure.
RecreateAlways(error) == TRUE

\* renewSubscription's catch: recreate on invalid/expired.
RecreateOnError(error) ==
  \/ error.status = 404
  \/ error.status = 400
  \/ error.code = "InvalidSubscription"

\* The tables a call works on: the local rows, the provider's subscriptions,
\* the number of subscriptions issued, and whether the call threw.
World(rows, subs, n) ==
  [rows |-> rows, provider |-> subs, issued |-> n, threw |-> FALSE]

\* createSubscription(accountId) at time t: the token, the POST, the upsert
\* keyed by accountId. A failure of the token or of the POST stores nothing.
createSubscription(w, accountId, t, answer) ==
  IF answer # Ok THEN [w EXCEPT !.threw = TRUE]
  ELSE LET n == w.issued + 1
           subscriptionId == ProviderSubscriptionId(n)
           expiresAt == getExpirationDateTime(t)
       IN  [ rows |-> {s \in w.rows : s.accountId # accountId} \cup
                        { SubscriptionRow(accountId, subscriptionId,
                                          generateClientState(n), expiresAt) },
             provider |-> w.provider \cup
                        {[id |-> subscriptionId, expiresAt |-> expiresAt]},
             issued |-> n,
             threw |-> FALSE ]

\* renewSubscription(accountId) at time t, given the answer to the PATCH and
\* the answer the create would get.
renewSubscription(w, accountId, t, patch, create) ==
  LET existing == {s \in w.rows : s.accountId = accountId}
  IN  IF existing = {} THEN createSubscription(w, accountId, t, create)
      ELSE IF patch = Ok
      THEN LET expiresAt == getExpirationDateTime(t)
               subscriptionId == (CHOOSE s \in existing : TRUE).subscriptionId
           IN  [w EXCEPT
                 !.rows = {IF s.accountId = accountId
                           THEN [s EXCEPT !.expiresAt = expiresAt] ELSE s :
                           s \in w.rows},
                 !.provider = {IF p.id = subscriptionId
                               THEN [p EXCEPT !.expiresAt = expiresAt] ELSE p :
                               p \in w.provider}]
      ELSE IF RecreateOnError(patch)
      THEN createSubscription([w EXCEPT !.rows = @ \ existing],
                              accountId, t, create)
      ELSE [w EXCEPT !.threw = TRUE]

\* getAccountsNeedingSubscription
getAccountsNeedingSubscription(accounts, rows) ==
  {a \in Accounts :
     /\ accounts[a].status = "CONNECTED"
     /\ accounts[a].isEnabled
     /\ ~\E s \in rows : s.accountId = a}

\* twelveHoursFromNow.setHours(getHours() + 12)
ExpiringHours == 12

\* getExpiringSubscriptions at time t
getExpiringSubscriptions(rows, t) ==
  {s \in rows : s.expiresAt <= t + ExpiringHours * 60}

----------------------------------------------------------------------------
(* The renewal worker: the "mail-sync" queue, the planner and its jobs *)

\* WEBHOOK_RENEWAL_INTERVAL_MS, in minutes
WEBHOOK_RENEWAL_INTERVAL == 60

\* defaultJobOptions: removeOnComplete, removeOnFail, attempts
KeepCompleted == 200

KeepFailedSync == 200

SyncAttempts == 5

EmptySyncQueue == [wait |-> << >>, completed |-> << >>, failed |-> << >>]

SyncJob(name, jobId, accountId) ==
  [name |-> name, jobId |-> jobId, accountId |-> accountId, attemptsMade |-> 0]

\* Bull keeps a job's key while the job waits and while it is kept in the
\* completed or the failed list.
SyncJobExists(q, jobId) ==
  \/ \E i \in 1..Len(q.wait) : q.wait[i].jobId = jobId
  \/ \E i \in 1..Len(q.completed) : q.completed[i] = jobId
  \/ \E i \in 1..Len(q.failed) : q.failed[i] = jobId

\* syncQueue.add(name, data, { jobId }): a job whose id exists is not added.
SyncAdd(q, job) ==
  IF SyncJobExists(q, job.jobId) THEN q
  ELSE [q EXCEPT !.wait = Append(@, job)]

\* The job returned: it is kept among the last KeepCompleted completed jobs.
SyncComplete(q, jobId) ==
  [q EXCEPT !.completed = LastN(Append(@, jobId), KeepCompleted)]

\* A faulty variant in which a job that throws takes the waiting jobs with it.
SyncFailAbort(q, job) ==
  [q EXCEPT !.wait = << >>, !.failed = Append(@, job.jobId)]

\* The job threw: it is tried again (after its backoff) until it has made
\* SyncAttempts attempts, and is then kept among the failed jobs.
SyncFail(q, job) ==
  IF job.attemptsMade + 1 < SyncAttempts
  THEN [q EXCEPT !.wait = Append(@, [job EXCEPT !.attemptsMade = @ + 1])]
  ELSE [q EXCEPT !.failed = LastN(Append(@, job.jobId), KeepFailedSync)]

\* The order in which the planner goes through the accounts it found.
AccountOrder == <<"a1", "a2">>

RECURSIVE SyncAddAll(_, _, _, _)
SyncAddAll(q, name, prefix, accounts) ==
  IF accounts = << >> THEN q
  ELSE SyncAddAll(
         SyncAdd(q, SyncJob(name, prefix \o Head(accounts), Head(accounts))),
         name, prefix, Tail(accounts))

NoRenewal ==
  [ called |-> FALSE, accountId |-> NoValue, at |-> 0, before |-> {},
    patch |-> Ok, threw |-> FALSE, after |-> {} ]

\* syncQueue.process("webhook:plan-maintenance"): the planner queues a create
\* job for every active account without a subscription and a renew job for
\* every subscription that expires within twelve hours; then its own job
\* returns.
PlanMaintenance ==
  /\ planDue
  /\ LET missing == getAccountsNeedingSubscription(mailAccount,
                                                   webhookSubscription)
         expiring == {s.accountId :
                        s \in getExpiringSubscriptions(webhookSubscription, now)}
         withCreate ==
           SyncAddAll(syncQueue, "webhook:create-subscription",
                      "webhook:create:",
                      SelectSeq(AccountOrder, LAMBDA a : a \in missing))
         withRenew ==
           SyncAddAll(withCreate, "webhook:renew-subscription",
                      "webhook:renew:",
                      SelectSeq(AccountOrder, LAMBDA a : a \in expiring))
     IN  syncQueue' =
           SyncComplete(withRenew, "webhook:plan-maintenance:" \o ToString(now))
  /\ planDue' = FALSE
  /\ UNCHANGED <<mailAccount, webhookSubscription, deliveryVars,
                 serviceVars, validated,
                 now, provider, issued, faults, renewal>>

\* The answers a job's calls can get: those of a provider that works, and,
\* while failures are still to come, any of the faults.
Answers(natural) == {natural} \cup (IF faults > 0 THEN CallFaults ELSE {})

\* What is left of the failures to come after a job that met these answers.
FaultsLeft(used) == IF used THEN faults - 1 ELSE faults

\* syncQueue.process("webhook:create-subscription")
ProcessCreateSubscription ==
  /\ syncQueue.wait # << >>
  /\ Head(syncQueue.wait).name = "webhook:create-subscription"
  /\ \E create \in Answers(Ok) :
       LET job == Head(syncQueue.wait)
           rest == [syncQueue EXCEPT !.wait = Tail(@)]
           w == createSubscription(
                  World(webhookSubscription, provider, issued),
                  job.accountId, now, create)
       IN  /\ webhookSubscription' = w.rows
           /\ provider' = w.provider
           /\ issued' = w.issued
           /\ syncQueue' = IF w.threw THEN SyncFail(rest, job)
                           ELSE SyncComplete(rest, job.jobId)
           /\ faults' = FaultsLeft(create # Ok)
  /\ UNCHANGED <<mailAccount, deliveryVars,
                 serviceVars, validated, now, planDue, renewal>>

\* syncQueue.process("webhook:renew-subscription")
ProcessRenewSubscription ==
  /\ syncQueue.wait # << >>
  /\ Head(syncQueue.wait).name = "webhook:renew-subscription"
  /\ LET job == Head(syncQueue.wait)
         rest == [syncQueue EXCEPT !.wait = Tail(@)]
         before == {s \in webhookSubscription : s.accountId = job.accountId}
         natural == IF before = {} THEN Ok
                    ELSE PatchAnswer(provider,
                           (CHOOSE s \in before : TRUE).subscriptionId, now)
     IN  \E patch \in Answers(natural), create \in Answers(Ok) :
           LET w == renewSubscription(
                      World(webhookSubscription, provider, issued),
                      job.accountId, now, patch, create)
               recreated == before = {} \/ (patch # Ok /\ RecreateOnError(patch))
           IN  /\ (~recreated) => create = Ok
               /\ ~(patch # natural /\ create # Ok)
               /\ webhookSubscription' = w.rows
               /\ provider' = w.provider
               /\ issued' = w.issued
               /\ syncQueue' = IF w.threw THEN SyncFail(rest, job)
                               ELSE SyncComplete(rest, job.jobId)
               /\ faults' = FaultsLeft(patch # natural \/ create # Ok)
               /\ renewal' =
                    [ called |-> TRUE, accountId |-> job.accountId, at |-> now,
                      before |-> before, patch |-> patch, threw |-> w.threw,
                      after |-> {s \in w.rows : s.accountId = job.accountId} ]
  /\ UNCHANGED <<mailAccount, deliveryVars,
                 serviceVars, validated, now, planDue>>

\* An hour passes once the jobs queued for this hour have run (their delays
\* and backoffs are seconds), and the repeatable planner job comes due.
Tick(limit) ==
  /\ ~planDue
  /\ syncQueue.wait = << >>
  /\ now < limit
  /\ now' = now + WEBHOOK_RENEWAL_INTERVAL
  /\ planDue' = TRUE
  /\ UNCHANGED <<mailAccount, webhookSubscription, deliveryVars,
                 serviceVars, validated,
                 syncQueue, provider, issued, faults, renewal>>

----------------------------------------------------------------------------
(* MicrosoftAuthService: the token store *)

NoToken ==
  [accessToken |-> NoValue, refreshToken |-> NoValue, expiresAt |-> 0]

\* The refresh exchanges followed.
MaxRefresh == 2

\* The minutes the token store is followed for.
TokenClock == 2

\* const bufferTime = 5 * 60 * 1000, in minutes.
bufferTime == 5

\* expires_in of a token response (3600 seconds), in minutes.
expires_in == 60

\* A faulty variant that refreshes a token only once it has expired.
TokenExpired(tokenRecord, t) == tokenRecord.expiresAt <= t

\* The negation of `expiresAt.getTime() - now.getTime() > bufferTime`.
TokenNeedsRefresh(tokenRecord, t) == ~(tokenRecord.expiresAt - t > bufferTime)

\* What the token endpoint answers to the n-th refresh exchange: tokens (the
\* provider may rotate the refresh token or leave it out), or a failure.
TokenResponses(n) ==
  { [ok |-> TRUE, access_token |-> "at" \o ToString(n),
      refresh_token |-> rt, error |-> NoValue] :
      rt \in {NoValue, "rt" \o ToString(n)} }
  \cup
  { [ok |-> FALSE, access_token |-> NoValue, refresh_token |-> NoValue,
      error |-> e] : e \in {"invalid_grant", "timeout of 10000ms exceeded"} }

\* refreshAccessToken: the exchange, whose failure is raised again as
\* `Token refresh failed: ${description}`.
refreshAccessToken(response) ==
  IF response.ok THEN response
  ELSE [response EXCEPT !.error = "Token refresh failed: " \o response.error]

\* A faulty variant that stores whatever the response carries as the refresh
\* token, also nothing.
storeTokensReplace(tokenRecord, tokens, t) ==
  [ accessToken |-> tokens.access_token,
    refreshToken |-> tokens.refresh_token,
    expiresAt |-> t + expires_in ]

\* storeTokens: the upsert of the account's row; the stored refresh token is
\* kept when the response carries none.
storeTokens(tokenRecord, tokens, t) ==
  [ accessToken |-> tokens.access_token,
    refreshToken |-> IF tokens.refresh_token # NoValue
                     THEN tokens.refresh_token ELSE tokenRecord.refreshToken,
    expiresAt |-> t + expires_in ]

\* A faulty variant of the catch block that leaves the account as it is.
MarkNothing(account, message) == account

\* catch: prisma.mailAccount.update with status NEEDS_REAUTH and lastError.
MarkNeedsReauth(account, message) ==
  [account EXCEPT !.status = "NEEDS_REAUTH",
                  !.lastError = "Token refresh failed: " \o message]

NoTokenCall ==
  [ called |-> FALSE, accountId |-> NoValue, at |-> 0, before |-> NoToken,
    refreshed |-> FALSE, threw |-> FALSE, error |-> NoValue,
    result |-> NoValue, refresh_token |-> NoValue ]

\* getValidAccessToken(accountId): no row raises; a token that is good for
\* more than the buffer is returned as stored; otherwise the token is
\* refreshed and stored, and a failure of that marks the account and is
\* raised again.
GetValidAccessToken(a) ==
  /\ LET tokenRecord == mailToken[a]
         call == [NoTokenCall EXCEPT !.called = TRUE, !.accountId = a,
                    !.at = now, !.before = tokenRecord]
     IN  \/ /\ tokenRecord = NoToken
            /\ tokenCall' = [call EXCEPT !.threw = TRUE,
                 !.error = "No tokens found for account - please reconnect"]
            /\ UNCHANGED <<mailToken, mailAccount, refreshCalls>>
         \/ /\ tokenRecord # NoToken
            /\ ~TokenNeedsRefresh(tokenRecord, now)
            /\ tokenCall' = [call EXCEPT !.result = tokenRecord.accessToken]
            /\ UNCHANGED <<mailToken, mailAccount, refreshCalls>>
         \/ /\ tokenRecord # NoToken
            /\ TokenNeedsRefresh(tokenRecord, now)
            /\ refreshCalls < MaxRefresh
            /\ refreshCalls' = refreshCalls + 1
            /\ \E response \in TokenResponses(refreshCalls + 1) :
                 LET newTokens == refreshAccessToken(response)
                 IN  IF newTokens.ok
                     THEN /\ mailToken' = [mailToken EXCEPT ![a] =
                               storeTokens(tokenRecord, newTokens, now)]
                          /\ tokenCall' = [call EXCEPT !.refreshed = TRUE,
                               !.result = newTokens.access_token,
                               !.refresh_token = newTokens.refresh_token]
                          /\ UNCHANGED mailAccount
                     ELSE /\ mailAccount' = [mailAccount EXCEPT ![a] =
                               MarkNeedsReauth(@, newTokens.error)]
                          /\ tokenCall' = [call EXCEPT !.refreshed = TRUE,
                               !.threw = TRUE, !.error = newTokens.error]
                          /\ UNCHANGED mailToken
  /\ UNCHANGED <<webhookSubscription, deliveryVars, upkeepVars, filterVars,
                 schedule, sweepVars,
                 edgeVars, callVars>>

\* Time passes between two calls.
TokenClockTick ==
  /\ now < TokenClock
  /\ \E minutes \in {1, expires_in} : now' = now + minutes
  /\ UNCHANGED <<mailAccount, webhookSubscription, deliveryVars, serviceVars,
                 validated, planDue, syncQueue, provider, issued, faults,
                 renewal>>

----------------------------------------------------------------------------
(* The content filter: isSteamMessage *)

\* Text is a sequence of characters, so that case, "@" and substrings are
\* what they are in the code.
Lower(c) ==
  CASE c = "N" -> "n" [] c = "S" -> "s" [] c = "C" -> "c" [] OTHER -> c

toLowerCase(text) == [i \in 1..Len(text) |-> Lower(text[i])]

\* text.includes(k)
includes(text, k) ==
  \E i \in 0..(Len(text) - Len(k)) : SubSeq(text, i + 1, i + Len(k)) = k

\* fromAddress.split("@")[1] || "": what stands between the first "@" and
\* the next one (or the end), and nothing when there is no "@".
DomainOf(fromAddress) ==
  LET ats == {i \in 1..Len(fromAddress) : fromAddress[i] = "@"}
  IN  IF ats = {} THEN << >>
      ELSE LET first == Min(ats)
               rest == {i \in ats : i > first}
               last == IF rest = {} THEN Len(fromAddress) ELSE Min(rest) - 1
           IN  SubSeq(fromAddress, first + 1, last)

isSteamMessage(config, msgPreview) ==
  LET fromAddress == toLowerCase(msgPreview.address)
      subject == toLowerCase(msgPreview.subject)
      domain == DomainOf(fromAddress)
  IN  IF fromAddress \in config.STEAM_ALLOWED_SENDERS THEN TRUE
      ELSE IF domain # << >> /\ domain \in config.STEAM_ALLOWED_DOMAINS
      THEN TRUE
      ELSE IF config.STEAM_SUBJECT_KEYWORDS # {}
      THEN \E k \in config.STEAM_SUBJECT_KEYWORDS : includes(subject, k)
      ELSE FALSE

\* The sender addresses and subjects a preview may carry (a missing field
\* reads as the empty text): n@s, N@S, x@s, x@t, ns, x@s@t; c, C, oc, o.
PreviewAddresses ==
  { << >>, <<"n", "@", "s">>, <<"N", "@", "S">>, <<"x", "@", "s">>,
    <<"x", "@", "t">>, <<"n", "s">>, <<"x", "@", "s", "@", "t">> }

PreviewSubjects == { << >>, <<"c">>, <<"C">>, <<"o", "c">>, <<"o">> }

\* The settings parseCsvEnv can produce: lists of non-empty, lower-case items.
SteamConfigs ==
  [ STEAM_ONLY : BOOLEAN,
    STEAM_ALLOWED_SENDERS : SUBSET {<<"n", "@", "s">>},
    STEAM_ALLOWED_DOMAINS : SUBSET {<<"s">>},
    STEAM_SUBJECT_KEYWORDS : SUBSET {<<"c">>, <<"c", "o">>} ]

NoFilterCall ==
  [ called |-> FALSE, address |-> << >>, subject |-> << >>,
    isSteam |-> FALSE, skipped |-> FALSE ]

\* Step 2 of the processor over one preview: the filter's verdict, and
\* whether the job is skipped.
FilterPreview ==
  /\ \E address \in PreviewAddresses, subject \in PreviewSubjects :
       LET msgPreview == [address |-> address, subject |-> subject]
           isSteam == isSteamMessage(steamConfig, msgPreview)
       IN  filtered' = [ called |-> TRUE, address |-> address,
                         subject |-> subject, isSteam |-> isSteam,
                         skipped |-> steamConfig.STEAM_ONLY /\ ~isSteam ]
  /\ UNCHANGED <<mailAccount, webhookSubscription, deliveryVars, upkeepVars,
                 tokenVars, steamConfig, schedule, sweepVars,
                 edgeVars, callVars>>

----------------------------------------------------------------------------
(* The worker's start-up: startWorker and the queue's repeatable job *)

\* The starts of the worker process followed.
MaxStarts == 3

\* The time the schedule is followed for, in minutes.
RestartClock == 180

MAINTENANCE_LOCK_JOB_ID == "webhook:plan-maintenance:repeat"

\* The key Bull files a repeatable job under: its name, its jobId and its
\* interval.
RepeatKey(name, jobId, every) == <<name, jobId, every>>

\* The time of the next iteration: the next multiple of the interval.
NextMillis(t, every) == (t \div every) * every + every

\* A faulty variant that registers a schedule whatever is registered.
RepeatAddAlways(keys, key) == Append(keys, key)

\* The registry of repeatable jobs holds a key once.
RepeatAdd(keys, key) ==
  IF \E i \in 1..Len(keys) : keys[i] = key THEN keys ELSE Append(keys, key)

\* The delayed job of a schedule's next iteration; its id is made of the key
\* and the time, so that adding it again changes nothing.
NextIteration(delayed, keys, t) ==
  delayed \cup { [key |-> keys[i], at |-> NextMillis(t, keys[i][3])] :
                   i \in 1..Len(keys) }

NoSchedule ==
  [ running |-> FALSE, starts |-> 0, startup |-> {}, repeat |-> << >>,
    delayed |-> {}, fired |-> << >> ]

\* startWorker: the one-off planner job of this start (its id carries
\* Date.now(), here the number of the start) and the repeatable planner job
\* under its fixed jobId.
StartWorker ==
  /\ ~schedule.running
  /\ schedule.starts < MaxStarts
  /\ LET key == RepeatKey("webhook:plan-maintenance", MAINTENANCE_LOCK_JOB_ID,
                          WEBHOOK_RENEWAL_INTERVAL)
         keys == RepeatAdd(schedule.repeat, key)
     IN  schedule' = [schedule EXCEPT
           !.running = TRUE,
           !.starts = @ + 1,
           !.startup = @ \cup {"webhook:plan-maintenance:now:" \o
                                 ToString(schedule.starts + 1)},
           !.repeat = keys,
           !.delayed = NextIteration(@, keys, now)]
  /\ UNCHANGED <<mailAccount, webhookSubscription, deliveryVars, upkeepVars,
                 tokenVars, filterVars, sweepVars,
                 edgeVars, callVars>>

\* shutdown (SIGINT, SIGTERM): the process ends, the queue keeps its jobs.
Shutdown ==
  /\ schedule.running
  /\ schedule' = [schedule EXCEPT !.running = FALSE]
  /\ UNCHANGED <<mailAccount, webhookSubscription, deliveryVars, upkeepVars,
                 tokenVars, filterVars, sweepVars,
                 edgeVars, callVars>>

\* A delayed iteration comes due: the planner job runs, and Bull sets up the
\* iteration that follows.
RepeatDue ==
  /\ schedule.running
  /\ \E job \in schedule.delayed :
       /\ job.at <= now
       /\ schedule' = [schedule EXCEPT
            !.fired = Append(@, job),
            !.delayed = NextIteration(@ \ {job}, schedule.repeat, now)]
  /\ UNCHANGED <<mailAccount, webhookSubscription, deliveryVars, upkeepVars,
                 tokenVars, filterVars, sweepVars,
                 edgeVars, callVars>>

\* Half an interval passes; a running worker has run what was due.
ScheduleTick ==
  /\ now < RestartClock
  /\ schedule.running => \A job \in schedule.delayed : job.at > now
  /\ now' = now + WEBHOOK_RENEWAL_INTERVAL \div 2
  /\ UNCHANGED <<mailAccount, webhookSubscription, deliveryVars, serviceVars,
                 validated, planDue, syncQueue, provider, issued, faults,
                 renewal>>

----------------------------------------------------------------------------
(* The retry sweep: retryFailedMessages, retryMessage, getFailedMessages *)

\* The largest retry ceiling MAX_RETRIES is given.
MaxCeiling == 3

\* The sweeps that can be in flight together: the worker's retry-failed job
\* and a request to POST /api/dashboard/retry-failed.
Sweepers == {1, 2}

\* getFailedMessages(limit = 50)
RetryLimit == 50

IdleSweep == [pc |-> "idle", failedMessages |-> << >>, error |-> NoError]

\* The text of an error as retryMessage stores it (error.message): it names
\* the status in words and has no status field.
ErrorMessage(e) ==
  [status |-> -1,
   code |-> IF e.status = 0 THEN "Network Error"
            ELSE "Request failed with status code " \o ToString(e.status)]

\* error contains '"status":403': true of the JSON the processor stores for
\* a 403.
HasStatus403(error) == error.status = 403

\* getFailedMessages: the rows that are FAILED, below the ceiling and not
\* refused with a 403.
getFailedMessages(rows, ceiling) ==
  {row \in rows : /\ row.forwardStatus = "FAILED"
                  /\ row.attempts < ceiling
                  /\ ~HasStatus403(row.error)}

\* The rows of a set in any order (lastAttemptAt decides it), cut at the
\* limit.
Ordered(rows) ==
  LET n == Min({Cardinality(rows), RetryLimit})
  IN  {seq \in [1..n -> rows] : \A i, j \in 1..n : seq[i] = seq[j] => i = j}

\* retryFailedMessages, up to its loop: the rows to retry are read once.
SweepStart(s) ==
  /\ sweep[s].pc = "idle"
  /\ getFailedMessages(mailMessageLog, maxRetries) # {}
  /\ \E failedMessages \in Ordered(getFailedMessages(mailMessageLog,
                                                      maxRetries)) :
       sweep' = [sweep EXCEPT ![s] =
         [IdleSweep EXCEPT !.pc = "retry", !.failedMessages = failedMessages]]
  /\ UNCHANGED <<mailAccount, webhookSubscription, deliveryVars, upkeepVars,
                 tokenVars, filterVars, schedule, maxRetries,
                 edgeVars, callVars>>

\* retryMessage, the try block up to the forward: getMessage fails, or the
\* forward is called and succeeds or fails.
RetryForward(s) ==
  /\ sweep[s].pc = "retry"
  /\ LET log == Head(sweep[s].failedMessages)
         job == [accountId |-> log.accountId, messageId |-> log.graphMessageId]
     IN  \/ /\ sweep' = [sweep EXCEPT ![s].pc = "update"]
            /\ forwardCalls' = CountForward(forwardCalls, job)
         \/ \E e \in Errors, called \in BOOLEAN :
              /\ called => ForwardIssued(e)
              /\ sweep' = [sweep EXCEPT ![s].pc = "update", ![s].error = e]
              /\ forwardCalls' = IF called
                                 THEN CountForward(forwardCalls, job)
                                 ELSE forwardCalls
  /\ UNCHANGED <<mailAccount, webhookSubscription, mailMessageLog,
                 forwardQueue, worker, req, received, logger, logCalls,
                 notices, upkeepVars, tokenVars, filterVars, schedule,
                 maxRetries,
                 edgeVars, callVars>>

\* The status retryMessage gives a row whose retry failed.
RetryStatus(attempts, ceiling) ==
  IF attempts >= ceiling THEN "FAILED" ELSE "PENDING"

\* retryMessage, the update by id that ends it: FORWARDED and the counters
\* of the account, or the attempts counted from the row as it was read;
\* then the loop of retryFailedMessages goes on.
RetryUpdate(s) ==
  /\ sweep[s].pc = "update"
  /\ LET log == Head(sweep[s].failedMessages)
         rest == Tail(sweep[s].failedMessages)
     IN  /\ IF sweep[s].error = NoError
            THEN /\ mailMessageLog' =
                      { IF row.id = log.id
                        THEN [row EXCEPT !.forwardStatus = "FORWARDED",
                                         !.lastAttemptAt = now,
                                         !.error = NoError]
                        ELSE row : row \in mailMessageLog }
                 /\ mailAccount' = [mailAccount EXCEPT
                      ![log.accountId].forwardedCount = @ + 1,
                      ![log.accountId].failedForwardCount = @ - 1]
            ELSE /\ mailMessageLog' =
                      { IF row.id = log.id
                        THEN [row EXCEPT
                               !.attempts = log.attempts + 1,
                               !.lastAttemptAt = now,
                               !.error = ErrorMessage(sweep[s].error),
                               !.forwardStatus =
                                 RetryStatus(log.attempts + 1, maxRetries)]
                        ELSE row : row \in mailMessageLog }
                 /\ UNCHANGED mailAccount
         /\ sweep' = [sweep EXCEPT ![s] =
              [IdleSweep EXCEPT
                 !.pc = IF rest = << >> THEN "idle" ELSE "retry",
                 !.failedMessages = rest]]
  /\ UNCHANGED <<webhookSubscription, forwardQueue, worker, req, received,
                 logger, logCalls, forwardCalls, notices, upkeepVars,
                 tokenVars, filterVars, schedule, maxRetries,
                 edgeVars, callVars>>

----------------------------------------------------------------------------
(* Initial states *)

AccountRow(status, isEnabled) ==
  [ status |-> status, isEnabled |-> isEnabled, lastError |-> NoValue,
    errorCount |-> 0, forwardedCount |-> 0, failedForwardCount |-> 0 ]

EmptyQueue == [wait |-> << >>, active |-> {}, failed |-> << >>]

NoValidation ==
  [ called |-> FALSE, clientState |-> NoValue, subscriptionId |-> NoValue,
    rows |-> {}, result |-> {}, raised |-> FALSE ]

\* The delivery side at rest: an empty ledger, no request received.
InitDelivery ==
  /\ mailMessageLog = {}
  /\ worker = [w \in Slots |-> IdleWorker]
  /\ req = [r \in Requests |-> IdleRequest]
  /\ received = 0
  /\ logger = IdleLogger
  /\ logCalls = 0
  /\ forwardCalls = [p \in Accounts \X Messages |-> 0]
  /\ notices = [reauth |-> 0, dev |-> 0]

\* The subscription upkeep at rest: no worker running, nothing at the provider.
InitUpkeep ==
  /\ validated = NoValidation
  /\ now = 0
  /\ planDue = FALSE
  /\ syncQueue = EmptySyncQueue
  /\ provider = {}
  /\ issued = 0
  /\ faults = 0
  /\ renewal = NoRenewal

\* The token store at rest: no token stored, no call made.
InitTokenStore ==
  /\ mailToken = [a \in Accounts |-> NoToken]
  /\ tokenCall = NoTokenCall
  /\ refreshCalls = 0

\* The filter as deployed by default: STEAM_ONLY, and no list set.
InitFilter ==
  /\ steamConfig = [STEAM_ONLY |-> TRUE, STEAM_ALLOWED_SENDERS |-> {},
                    STEAM_ALLOWED_DOMAINS |-> {},
                    STEAM_SUBJECT_KEYWORDS |-> {}]
  /\ filtered = NoFilterCall

\* No worker started yet: nothing registered in the queue.
InitSchedule == schedule = NoSchedule

\* The retry ceiling at its default, and no sweep running.
InitSweep ==
  /\ maxRetries = 1
  /\ sweep = [s \in Sweepers |-> IdleSweep]

\* The scheduling cycles of the polling worker that can be in flight at once.
Cycles == {1, 2}

\* The service calls that can be in flight at once.
Callers == {1, 2}

IdleCall == [pc |-> "idle"]

\* new ForwarderService(): _forwardToCache = null, _forwardToCacheTime = 0
EmptyCache == [value |-> NoValue, time |-> 0]

\* No call in flight, no address set in the database, nothing cached.
InitCalls ==
  /\ serviceCalls = [c \in Callers |-> IdleCall]
  /\ systemSetting = NoValue
  /\ forwardToCache = EmptyCache

\* No link followed yet: no id asked for, no response, no state issued and
\* no callback received.
NoOAuth ==
  [ id |-> << >>, status |-> 0, state |-> << >>, accountId |-> << >>,
    completed |-> FALSE, threw |-> FALSE ]

EmptyPollQueue == [jobs |-> {}, clock |-> 0]

IdleCycle ==
  [ pc |-> "idle", accounts |-> << >>, pendingAccountIds |-> {},
    hasRetryJob |-> FALSE ]

\* Every message the model speaks of is in its mailbox, every account has its
\* cursor row, no re-auth link was followed and the polling worker is idle.
InitEdge ==
  /\ InitCalls
  /\ mailbox = [a \in Accounts |-> Messages]
  /\ mailSyncState = Accounts
  /\ oauth = NoOAuth
  /\ pollQueue = EmptyPollQueue
  /\ cycle = [c \in Cycles |-> IdleCycle]

InitServices ==
  /\ InitEdge
  /\ InitTokenStore
  /\ InitFilter
  /\ InitSchedule
  /\ InitSweep

\* Everything but the accounts and the forward queue: two subscribed
\* mailboxes, the delivery side at rest, and no renewal worker running.
InitRest ==
  /\ webhookSubscription =
       { SubscriptionRow("a1", "s1", "k1", subscriptionLifetimeMinutes),
         SubscriptionRow("a2", "s2", "k2", subscriptionLifetimeMinutes) }
  /\ InitDelivery
  /\ validated = NoValidation
  /\ now = 0
  /\ planDue = FALSE
  /\ syncQueue = EmptySyncQueue
  /\ provider = { [id |-> "s1", expiresAt |-> subscriptionLifetimeMinutes],
                  [id |-> "s2", expiresAt |-> subscriptionLifetimeMinutes] }
  /\ issued = 2
  /\ faults = 0
  /\ renewal = NoRenewal
  /\ InitServices

----------------------------------------------------------------------------
(* The delivery pipeline: gateway, forward queue and processor *)

Init ==
  /\ mailAccount = [a \in Accounts |-> AccountRow("CONNECTED", TRUE)]
  /\ forwardQueue = EmptyQueue
  /\ InitRest

Next ==
  \/ \E r \in Requests : RouterPostMail(r)
  \/ \E r \in Requests : EnqueueValidate(r)
  \/ \E r \in Requests : EnqueueLoadAccount(r)
  \/ \E r \in Requests : EnqueueAdd(r)
  \/ \E w \in Slots : ProcessTake(w)
  \/ \E w \in Slots : ProcessPreview(w)
  \/ \E w \in Slots : ProcessForward(w)
  \/ \E w \in Slots : ProcessUpdate(w)
  \/ \E w \in Slots : CatchFind(w)
  \/ \E w \in Slots : CatchWrite(w)
  \/ \E w \in Slots : CatchNotify(w)

Spec == Init /\ [][Next]_vars

----------------------------------------------------------------------------
(* The gateway alone, over accounts in any state, with the operator's toggle *)

InitWebhook ==
  /\ \E s \in Statuses :
       mailAccount = [a \in Accounts |->
         IF a = "a1" THEN AccountRow(s, TRUE) ELSE AccountRow("CONNECTED", TRUE)]
  /\ forwardQueue = EmptyQueue
  /\ InitRest

NextWebhook ==
  \/ \E r \in Requests : RouterPostMail(r)
  \/ \E r \in Requests : EnqueueValidate(r)
  \/ \E r \in Requests : EnqueueLoadAccount(r)
  \/ \E r \in Requests : EnqueueAdd(r)
  \/ \E a \in Accounts : UpdateAccount(a)

SpecWebhook == InitWebhook /\ [][NextWebhook]_vars

----------------------------------------------------------------------------
(* The ledger's writers: the processor's catch block and logForward *)

InitLedger ==
  /\ mailAccount = [a \in Accounts |-> AccountRow("CONNECTED", TRUE)]
  /\ \E a \in Accounts :
       forwardQueue = [EmptyQueue EXCEPT
         !.wait = <<MakeJob(a, "m1"), MakeJob(a, "m2")>>]
  /\ InitRest

NextLedger ==
  \/ \E w \in Slots : ProcessTake(w)
  \/ \E w \in Slots : ProcessPreview(w)
  \/ \E w \in Slots : ProcessForward(w)
  \/ \E w \in Slots : ProcessUpdate(w)
  \/ \E w \in Slots : CatchFind(w)
  \/ \E w \in Slots : CatchWrite(w)
  \/ \E w \in Slots : CatchNotify(w)
  \/ LogForwardFind
  \/ LogForwardWrite

SpecLedger == InitLedger /\ [][NextLedger]_vars

----------------------------------------------------------------------------
(* validateNotification over every table and every input *)

SubscriptionIdValues == {"s1", "s2", "sX", "", NoValue}

ClientStateValues == {"k1", "k2", "", NoValue}

\* The tables: every account has at most one row, and no two rows share a
\* subscriptionId (the unique indexes of webhook_subscriptions); a stored
\* clientState is never empty.
SubscriptionTables ==
  { rows \in SUBSET { SubscriptionRow(a, sid, k, subscriptionLifetimeMinutes) :
                        a \in Accounts, sid \in {"s1", "s2"},
                        k \in {"k1", "k2"} } :
      \A s, t \in rows :
        (s.accountId = t.accountId \/ s.subscriptionId = t.subscriptionId)
          => s = t }

\* A call of validateNotification; the lookup by a missing subscriptionId is
\* refused by the database client, and the call raises.
ValidateNotification ==
  /\ \E clientState \in ClientStateValues,
        subscriptionId \in SubscriptionIdValues :
       validated' =
         [ called |-> TRUE, clientState |-> clientState,
           subscriptionId |-> subscriptionId, rows |-> webhookSubscription,
           result |-> IF subscriptionId = NoValue THEN {}
                      ELSE validateNotification(webhookSubscription,
                                                clientState, subscriptionId),
           raised |-> subscriptionId = NoValue ]
  /\ UNCHANGED <<mailAccount, webhookSubscription, deliveryVars,
                 serviceVars, now, planDue,
                 syncQueue, provider, issued, faults, renewal>>

InitValidate ==
  /\ mailAccount = [a \in Accounts |-> AccountRow("CONNECTED", TRUE)]
  /\ webhookSubscription \in SubscriptionTables
  /\ forwardQueue = EmptyQueue
  /\ InitDelivery
  /\ validated = NoValidation
  /\ now = 0
  /\ planDue = FALSE
  /\ syncQueue = EmptySyncQueue
  /\ provider = {}
  /\ issued = 0
  /\ faults = 0
  /\ renewal = NoRenewal
  /\ InitServices

NextValidate == ValidateNotification

SpecValidate == InitValidate /\ [][NextValidate]_vars

----------------------------------------------------------------------------
(* The renewal worker with a provider and tokens that never fail *)

\* The hours the worker is followed for, in minutes.
MaxClock == 15600

InitRenew ==
  /\ mailAccount = [a \in Accounts |-> AccountRow("CONNECTED", TRUE)]
  /\ webhookSubscription = {}
  /\ forwardQueue = EmptyQueue
  /\ InitDelivery
  /\ validated = NoValidation
  /\ now = 0
  /\ planDue = TRUE
  /\ syncQueue = EmptySyncQueue
  /\ provider = {}
  /\ issued = 0
  /\ faults = 0
  /\ renewal = NoRenewal
  /\ InitServices

NextRenew ==
  \/ PlanMaintenance
  \/ ProcessCreateSubscription
  \/ ProcessRenewSubscription
  \/ Tick(MaxClock)

SpecRenew == InitRenew /\ [][NextRenew]_vars

----------------------------------------------------------------------------
(* The renewal worker restarted over older rows, with calls that can fail *)

\* The failures of the provider or of the token that can happen.
MaxFaults == 5

\* The time the restarted worker is followed for, in minutes.
RecoverClock == 120

\* What the worker may find for an account when it starts: no row, a row that
\* expires within the planner's horizon, or a row that expired while the worker
\* was down and that the provider has dropped.
InitRecover ==
  /\ mailAccount = [a \in Accounts |-> AccountRow("CONNECTED", TRUE)]
  /\ \E found \in [Accounts -> {"none", "expiring", "expired"}] :
       LET n(a) == IF a = "a1" THEN 1 ELSE 2
           expiresAt(a) == IF found[a] = "expiring"
                           THEN (ExpiringHours - 2) * 60
                           ELSE -WEBHOOK_RENEWAL_INTERVAL
       IN  /\ webhookSubscription =
                { SubscriptionRow(a, ProviderSubscriptionId(n(a)),
                                  generateClientState(n(a)), expiresAt(a)) :
                    a \in {b \in Accounts : found[b] # "none"} }
           /\ provider =
                { [id |-> ProviderSubscriptionId(n(a)),
                   expiresAt |-> expiresAt(a)] :
                    a \in {b \in Accounts : found[b] = "expiring"} }
  /\ forwardQueue = EmptyQueue
  /\ InitDelivery
  /\ validated = NoValidation
  /\ now = 0
  /\ planDue = TRUE
  /\ syncQueue = EmptySyncQueue
  /\ issued = 2
  /\ faults = MaxFaults
  /\ renewal = NoRenewal
  /\ InitServices

NextRecover ==
  \/ PlanMaintenance
  \/ ProcessCreateSubscription
  \/ ProcessRenewSubscription
  \/ Tick(RecoverClock)

SpecRecover == InitRecover /\ [][NextRecover]_vars

----------------------------------------------------------------------------
(* getValidAccessToken over stored tokens of every age *)

\* The expiry times a stored token is given, in minutes from the start: long
\* expired, expiring now, inside the buffer, on its edge and beyond it.
TokenExpiries == {-10, 0, 4, 5, 6, 7, 10}

InitToken ==
  /\ mailAccount = [a \in Accounts |-> AccountRow("CONNECTED", TRUE)]
  /\ webhookSubscription = {}
  /\ forwardQueue = EmptyQueue
  /\ InitDelivery
  /\ InitUpkeep
  /\ mailToken \in [Accounts ->
       {NoToken} \cup { [accessToken |-> "at0", refreshToken |-> "rt0",
                         expiresAt |-> e] : e \in TokenExpiries }]
  /\ tokenCall = NoTokenCall
  /\ refreshCalls = 0
  /\ InitFilter
  /\ InitSchedule
  /\ InitSweep
  /\ InitEdge

NextToken ==
  \/ \E a \in Accounts : GetValidAccessToken(a)
  \/ TokenClockTick

SpecToken == InitToken /\ [][NextToken]_vars

----------------------------------------------------------------------------
(* isSteamMessage over every setting and every preview *)

InitSteam ==
  /\ mailAccount = [a \in Accounts |-> AccountRow("CONNECTED", TRUE)]
  /\ webhookSubscription = {}
  /\ forwardQueue = EmptyQueue
  /\ InitDelivery
  /\ InitUpkeep
  /\ InitTokenStore
  /\ steamConfig \in SteamConfigs
  /\ filtered = NoFilterCall
  /\ InitSchedule
  /\ InitSweep
  /\ InitEdge

NextSteam == FilterPreview

SpecSteam == InitSteam /\ [][NextSteam]_vars

----------------------------------------------------------------------------
(* The worker process started, stopped and started again *)

InitRestart ==
  /\ mailAccount = [a \in Accounts |-> AccountRow("CONNECTED", TRUE)]
  /\ webhookSubscription = {}
  /\ forwardQueue = EmptyQueue
  /\ InitDelivery
  /\ InitUpkeep
  /\ InitTokenStore
  /\ InitFilter
  /\ InitSchedule
  /\ InitSweep
  /\ InitEdge

NextRestart ==
  \/ StartWorker
  \/ Shutdown
  \/ RepeatDue
  \/ ScheduleTick

SpecRestart == InitRestart /\ [][NextRestart]_vars

----------------------------------------------------------------------------
(* Retry sweeps over a ledger of failed rows *)

\* The rows a pair can have when the sweeps begin: none, or a FAILED row
\* the processor's catch block wrote, with one or two attempts.
FailedRows(a, m) ==
  { [CreatedRow({}, a, m, "FAILED", e) EXCEPT !.attempts = n] :
      e \in {[status |-> 403, code |-> "ErrorExceededMessageLimit"],
             [status |-> 500, code |-> ""]},
      n \in 1..2 }

InitRetry ==
  /\ InitUpkeep
  /\ \E r1 \in SUBSET FailedRows("a1", "m1"),
        r2 \in SUBSET FailedRows("a1", "m2") :
       /\ Cardinality(r1) <= 1 /\ Cardinality(r2) <= 1
       /\ mailMessageLog = r1 \cup r2
       /\ mailAccount = [a \in Accounts |->
            [AccountRow("CONNECTED", TRUE) EXCEPT !.failedForwardCount =
               IF a = "a1" THEN Cardinality(r1 \cup r2) ELSE 0]]
  /\ webhookSubscription = {}
  /\ forwardQueue = EmptyQueue
  /\ worker = [w \in Slots |-> IdleWorker]
  /\ req = [r \in Requests |-> IdleRequest]
  /\ received = 0
  /\ logger = IdleLogger
  /\ logCalls = 0
  /\ forwardCalls = [p \in Accounts \X Messages |-> 0]
  /\ notices = [reauth |-> 0, dev |-> 0]
  /\ InitTokenStore
  /\ InitFilter
  /\ InitSchedule
  /\ maxRetries \in 1..MaxCeiling
  /\ sweep = [s \in Sweepers |-> IdleSweep]
  /\ InitEdge

NextRetry ==
  \/ \E s \in Sweepers : SweepStart(s)
  \/ \E s \in Sweepers : RetryForward(s)
  \/ \E s \in Sweepers : RetryUpdate(s)

SpecRetry == InitRetry /\ [][NextRetry]_vars

----------------------------------------------------------------------------
(* Properties of the gateway (SpecWebhook) *)

JobsOf(q, a) ==
  {q.wait[i] : i \in {k \in 1..Len(q.wait) : q.wait[k].accountId = a}}
    \cup {j \in q.active : j.accountId = a}
    \cup {q.failed[i] : i \in {k \in 1..Len(q.failed) : q.failed[k].accountId = a}}

\* C1: a job enters the forward queue only in the add of a request whose account
\* was CONNECTED and enabled when enqueueNotification loaded it, and an account
\* whose status is not CONNECTED never has a job.
C1_EnqueueOnlyActive ==
  /\ [](\A a \in Accounts :
          mailAccount[a].status # "CONNECTED" => JobsOf(forwardQueue, a) = {})
  /\ [][\A a \in Accounts :
          JobsOf(forwardQueue', a) \ JobsOf(forwardQueue, a) # {} =>
            \E r \in Requests :
              /\ req[r].pc = "add"
              /\ req[r].accountId = a
              /\ req[r].account.status = "CONNECTED"
              /\ req[r].account.isEnabled = TRUE]_vars

\* C1 witness: a validated entry was dropped because its account is not active
\* while an entry of the other account was enqueued.
C1_Witness ==
  /\ \E r \in Requests : req[r].last = "not active"
  /\ \E a \in Accounts :
       /\ ~(mailAccount[a].status = "CONNECTED" /\ mailAccount[a].isEnabled)
       /\ JobsOf(forwardQueue, a) = {}
  /\ Len(forwardQueue.wait) = 1

\* C5: a request without a validation token that the handler has taken up has
\* been sent exactly one response, and its status is 202.
C5_AlwaysAccepted ==
  \A r \in Requests :
    (req[r].pc # "idle" /\ req[r].token \in {NoValue, ""}) =>
      /\ Len(req[r].responses) = 1
      /\ req[r].responses[1].status = 202

\* C5 witness: a handler that ended after an entry's enqueue raised, and one
\* whose body could not be iterated, each with its single 202.
C5_Witness ==
  \E r, o \in Requests :
    /\ req[r].pc = "done" /\ req[r].last = "raised"
    /\ req[o].pc = "done" /\ req[o].last = "not iterable"
    /\ req[r].responses = <<Accepted>> /\ req[o].responses = <<Accepted>>

\* C6 (amended): a request with a non-empty validation token ends at once with
\* the single response 200 text/plain whose body is the token, the step that
\* handles it changes no table, no queue and takes up no entry, and the request
\* does nothing afterwards.
C6_ValidationHandshake ==
  [][\A r \in Requests :
       /\ (req[r].pc = "idle" /\ req'[r].pc # "idle"
             /\ req'[r].token \notin {NoValue, ""}) =>
            /\ req'[r].pc = "done"
            /\ req'[r].responses =
                 <<[status |-> 200, contentType |-> "text/plain",
                    body |-> req'[r].token]>>
            /\ req'[r].last = NoValue
            /\ UNCHANGED <<mailAccount, webhookSubscription, mailMessageLog,
                           forwardQueue, received>>
       /\ (req[r].pc = "done" /\ req[r].token \notin {NoValue, ""}) =>
            req'[r] = req[r]]_vars

\* C6 witness: a handshake with token abc123 has been answered.
C6_Witness ==
  \E r \in Requests :
    /\ req[r].token = "abc123"
    /\ req[r].pc = "done"
    /\ req[r].responses =
         <<[status |-> 200, contentType |-> "text/plain", body |-> "abc123"]>>

\* C6 as stated: every request that carries the validationToken parameter, the
\* empty one included, is answered 200 text/plain with the token as body.
C6_AnyTokenEchoed ==
  \A r \in Requests :
    (req[r].pc # "idle" /\ req[r].token # NoValue) =>
      req[r].responses =
        <<[status |-> 200, contentType |-> "text/plain", body |-> req[r].token]>>

----------------------------------------------------------------------------
(* Properties of the delivery pipeline (Spec) *)

\* The jobs of an identity that are waiting or active.
PendingCount(q, jobId) ==
  Cardinality({i \in 1..Len(q.wait) : q.wait[i].jobId = jobId})
    + Cardinality({j \in q.active : j.jobId = jobId})

\* C2: the forward queue never holds more than one waiting or active job of an
\* (accountId, messageId) identity, and an add that meets such a job leaves the
\* queue as it is.
C2_OneJobPerIdentity ==
  /\ [](\A a \in Accounts, m \in Messages :
          PendingCount(forwardQueue, a \o ":" \o m) <= 1)
  /\ [][\A r \in Requests :
          (req[r].pc = "add" /\ req'[r].pc # "add"
             /\ PendingCount(forwardQueue,
                             req[r].accountId \o ":" \o req[r].messageId) = 1)
            => forwardQueue' = forwardQueue]_vars

\* C2 witness: an add met a waiting or active job of its identity, and the queue
\* holds exactly one job of an identity.
C2_Witness ==
  /\ \E r \in Requests : req[r].last = "pending"
  /\ \E a \in Accounts, m \in Messages :
       PendingCount(forwardQueue, a \o ":" \o m) = 1

\* C3: the provider's forward call is issued at most once per
\* (accountId, messageId), whatever notifications arrive and whenever.
C3_ForwardAtMostOnce ==
  \A p \in Accounts \X Messages : forwardCalls[p] <= 1

\* C8: at no time does the processor run two jobs of the same account.
C8_OneActivePerAccount ==
  \A a \in Accounts :
    /\ Cardinality({w \in Slots :
         worker[w].pc # "idle" /\ worker[w].job.accountId = a}) <= 1
    /\ Cardinality({j \in forwardQueue.active : j.accountId = a}) <= 1

\* C8 witness: a job of an account is being forwarded while another job of the
\* same account waits.
C8_Witness ==
  \E w \in Slots, i \in 1..Len(forwardQueue.wait) :
    /\ worker[w].pc = "forward"
    /\ forwardQueue.wait[i].accountId = worker[w].job.accountId
    /\ forwardQueue.wait[i].messageId # worker[w].job.messageId

----------------------------------------------------------------------------
(* Properties of the ledger (SpecLedger) *)

\* C4: the ledger never holds two rows of one (accountId, graphMessageId).
C4_OneRowPerPair ==
  \A a \in Accounts, m \in Messages :
    Cardinality({row \in mailMessageLog :
      row.accountId = a /\ row.graphMessageId = m}) <= 1

\* C4 witness: a second recording for a pair has updated the pair's only row.
C4_Witness ==
  \E row \in mailMessageLog :
    /\ row.attempts >= 2
    /\ Cardinality({o \in mailMessageLog :
         o.accountId = row.accountId
           /\ o.graphMessageId = row.graphMessageId}) = 1

----------------------------------------------------------------------------
(* Properties of validateNotification (SpecValidate) *)

\* C7: a call returns a row exactly when the table holds a row with the given
\* subscriptionId whose clientState equals the given one, and then it returns
\* that row; a call with a subscriptionId the table does not hold, with a
\* clientState that differs from the stored one, or with an empty or missing
\* clientState returns no row.
C7_ValidateIff ==
  validated.called =>
    LET matching == {s \in validated.rows :
                       /\ s.subscriptionId = validated.subscriptionId
                       /\ s.clientState = validated.clientState}
        known == \E s \in validated.rows :
                   s.subscriptionId = validated.subscriptionId
    IN  /\ validated.result = matching
        /\ Cardinality(validated.result) <= 1
        /\ (validated.result # {}) <=> (matching # {})
        /\ (~known) => validated.result = {}
        /\ validated.clientState \in {"", NoValue} => validated.result = {}

\* C7 witness: in a table of two rows, a call with the subscriptionId and the
\* clientState of the second account's row has returned that row.
C7_Witness ==
  /\ validated.called
  /\ validated.subscriptionId = "s1"
  /\ validated.clientState = "k2"
  /\ \E s \in validated.result : s.accountId = "a2"
  /\ Cardinality(validated.rows) = 2

----------------------------------------------------------------------------
(* Properties of the renewal loop (SpecRenew) *)

\* C9: the subscription of an account that is CONNECTED and enabled never has
\* its expiresAt in the past.
C9_NeverLapses ==
  \A s \in webhookSubscription :
    (mailAccount[s.accountId].status = "CONNECTED"
       /\ mailAccount[s.accountId].isEnabled)
      => s.expiresAt >= now

----------------------------------------------------------------------------
(* Properties of renewSubscription (SpecRecover) *)

\* The row the last renewSubscription call found was past its expiry.
RenewalExpired ==
  \E s \in renewal.before : s.expiresAt < renewal.at

\* The provider answered the renew with 404, 400 or InvalidSubscription.
RenewalRejected ==
  \/ renewal.patch.status = 404
  \/ renewal.patch.status = 400
  \/ renewal.patch.code = "InvalidSubscription"

\* The call left the account a row whose subscriptionId and clientState both
\* differ from those of the row it found.
RenewalReplaced ==
  /\ Cardinality(renewal.after) = 1
  /\ \A old \in renewal.before, new \in renewal.after :
       /\ new.subscriptionId # old.subscriptionId
       /\ new.clientState # old.clientState

----------------------------------------------------------------------------
(* Properties of the processor's outcomes (Spec) *)

QuotaError == [status |-> 403, code |-> "ErrorExceededMessageLimit"]

InFailed(q, job) == \E i \in 1..Len(q.failed) : q.failed[i] = job

C14_ForwardedRecorded ==
  [][\A w \in Slots :
       (worker[w].pc = "update" /\ worker'[w].pc = "idle")
       => LET job == worker[w].job
          IN  /\ \E row \in LogRows(mailMessageLog', job.accountId,
                                    job.messageId) :
                    row.forwardStatus = "FORWARDED"
              /\ mailAccount'[job.accountId].forwardedCount =
                   mailAccount[job.accountId].forwardedCount + 1
              /\ mailAccount'[job.accountId].failedForwardCount =
                   mailAccount[job.accountId].failedForwardCount]_vars

\* C15: a job whose preview is rejected by the filter (or is not found) ends
\* without failing and leaves the queue; no forward call is issued, the ledger
\* is not touched, no notice is sent, and the accounts keep their counters
\* and status.
C15_SkipHasNoEffect ==
  [][\A w \in Slots :
       (worker[w].pc = "preview" /\ worker'[w].pc = "idle")
       => /\ ~InFailed(forwardQueue', worker[w].job)
          /\ worker[w].job \notin forwardQueue'.active
          /\ forwardCalls' = forwardCalls
          /\ mailMessageLog' = mailMessageLog
          /\ mailAccount' = mailAccount
          /\ notices' = notices]_vars

\* C15 witness: a request had its job added, the job is gone and the
\* processor is idle, and yet no forward call was issued, the ledger is empty
\* and every counter is zero.
C15_Witness ==
  /\ \E r \in Requests : req[r].last = "added"
  /\ forwardQueue = EmptyQueue
  /\ \A w \in Slots : worker[w].pc = "idle"
  /\ \A p \in Accounts \X Messages : forwardCalls[p] = 0
  /\ mailMessageLog = {}
  /\ \A a \in Accounts :
        /\ mailAccount[a].forwardedCount = 0
        /\ mailAccount[a].failedForwardCount = 0
        /\ mailAccount[a].status = "CONNECTED"

----------------------------------------------------------------------------
(* Properties of the token store (SpecToken) *)

C12_RefreshFailureMarksAccount ==
  [][(tokenCall' # tokenCall /\ tokenCall'.refreshed) =>
       LET call == tokenCall'
           a == call.accountId
           failed == mailToken'[a].accessToken = call.before.accessToken
       IN  /\ call.threw <=> failed
           /\ call.threw =>
                /\ mailAccount'[a].status = "NEEDS_REAUTH"
                /\ mailAccount'[a].lastError =
                     "Token refresh failed: " \o call.error
                /\ call.error \in {"Token refresh failed: invalid_grant",
                     "Token refresh failed: timeout of 10000ms exceeded"}
                /\ mailToken' = mailToken
                /\ call.result = NoValue]_vars

\* C12 witness: a refresh failed on invalid_grant; the account is marked and
\* its token row is the one the call found.
C12_Witness ==
  /\ tokenCall.called /\ tokenCall.refreshed /\ tokenCall.threw
  /\ tokenCall.error = "Token refresh failed: invalid_grant"
  /\ mailAccount[tokenCall.accountId].status = "NEEDS_REAUTH"
  /\ mailToken[tokenCall.accountId] = tokenCall.before

----------------------------------------------------------------------------
(* Properties of the content filter (SpecSteam) *)

SenderListed ==
  toLowerCase(filtered.address) \in steamConfig.STEAM_ALLOWED_SENDERS

DomainListed ==
  \E d \in steamConfig.STEAM_ALLOWED_DOMAINS :
    d = DomainOf(toLowerCase(filtered.address))

AllowListConfigured ==
  \/ steamConfig.STEAM_ALLOWED_SENDERS # {}
  \/ steamConfig.STEAM_ALLOWED_DOMAINS # {}

KeywordInSubject ==
  \E k \in steamConfig.STEAM_SUBJECT_KEYWORDS :
    includes(toLowerCase(filtered.subject), k)

\* C16: the filter accepts a preview exactly when its sender address is in
\* the sender allow-list, or its sender domain is in the domain allow-list,
\* or, with no allow-list configured, its subject contains a keyword.
C16_FilterDecision ==
  filtered.called =>
    (filtered.isSteam <=>
       \/ SenderListed
       \/ DomainListed
       \/ ~AllowListConfigured /\ KeywordInSubject)

----------------------------------------------------------------------------
(* Properties of the planner's schedule (SpecRestart) *)

\* C17: once the worker has started, however often it is started again, one
\* recurring planner schedule is registered, one next iteration of it is
\* pending beside those overdue, and no iteration has run twice.
C17_OneSchedule ==
  schedule.starts >= 1 =>
    /\ Len(schedule.repeat) = 1
    /\ Cardinality({job \in schedule.delayed : job.at > now}) <= 1
    /\ \A i, j \in 1..Len(schedule.fired) :
          schedule.fired[i] = schedule.fired[j] => i = j

\* C17 witness: the worker has been started three times and planner
\* iterations have run before and after a restart.
C17_Witness ==
  /\ schedule.starts = 3
  /\ schedule.running
  /\ Len(schedule.fired) >= 2
  /\ Cardinality(schedule.startup) = 3

----------------------------------------------------------------------------
(* Properties of the retry sweep (SpecRetry) *)

\* C19: a sweep calls the forward only for a row that is FAILED with
\* attempts below the ceiling at that time, and the retry path never takes
\* the attempts of a row above the ceiling.
C19_RetryOnlyBelowCeiling ==
  [][\A s \in Sweepers :
       /\ (sweep[s].pc = "retry" /\ sweep'[s].pc = "update"
              /\ forwardCalls' # forwardCalls)
           => \E row \in mailMessageLog :
                /\ row.id = Head(sweep[s].failedMessages).id
                /\ row.forwardStatus = "FAILED"
                /\ row.attempts < maxRetries
       /\ (sweep[s].pc = "update" /\ sweep'[s].pc # "update")
           => \A row \in mailMessageLog' :
                row.id = Head(sweep[s].failedMessages).id
                  => row.attempts <= maxRetries]_vars

\* C20: after every failed retry the row is FAILED, and while its attempts
\* are below the ceiling it is a row the next sweep selects.
C20_FailedRetryStaysFailed ==
  [][\A s \in Sweepers :
       (sweep[s].pc = "update" /\ sweep[s].error # NoError
          /\ sweep'[s].pc # "update")
       => \A row \in mailMessageLog' :
            row.id = Head(sweep[s].failedMessages).id
              => /\ row.forwardStatus = "FAILED"
                 /\ row.attempts < maxRetries
                      => row \in getFailedMessages(mailMessageLog',
                                                   maxRetries)]_vars

----------------------------------------------------------------------------
(* Properties of a maintenance run (SpecRecover) *)

JobIdsOf(a) == {"webhook:create:" \o a, "webhook:renew:" \o a}

InList(list, ids) == \E i \in 1..Len(list) : list[i] \in ids

\* The create or renew job of the account has run to its end.
Attempted(a) ==
  \/ InList(syncQueue.completed, JobIdsOf(a))
  \/ InList(syncQueue.failed, JobIdsOf(a))

\* The first run after the start is over: planned, and no job left waiting.
FirstRunDone == now = 0 /\ ~planDue /\ syncQueue.wait = << >>

\* The job at the head of the queue threw in this step.
HeadJobThrew ==
  /\ syncQueue.wait # << >>
  /\ LET job == Head(syncQueue.wait)
     IN  \/ \E i \in 1..Len(syncQueue'.wait) :
              /\ syncQueue'.wait[i].jobId = job.jobId
              /\ syncQueue'.wait[i].attemptsMade = job.attemptsMade + 1
         \/ /\ ~InList(syncQueue.failed, {job.jobId})
            /\ InList(syncQueue'.failed, {job.jobId})

\* C18: a create or renew job that throws leaves the jobs of the other
\* accounts waiting as they were, and when the run that followed the start is
\* over (every account was selected), the operation of every account has
\* been attempted, whatever failed for the others.
C18_FailureDoesNotBlock ==
  /\ [](FirstRunDone => \A a \in Accounts : Attempted(a))
  /\ [][HeadJobThrew =>
         \A i \in 2..Len(syncQueue.wait) :
           \E j \in 1..Len(syncQueue'.wait) :
             syncQueue'.wait[j] = syncQueue.wait[i]]_vars

\* C18 witness: in the run that followed the start the job of a1 failed for
\* good and the job of a2 returned.
C18_Witness ==
  /\ now = 0
  /\ InList(syncQueue.failed, JobIdsOf("a1"))
  /\ InList(syncQueue.completed, JobIdsOf("a2"))

LoggedRows(a, m) ==
  { [CreatedRow({}, a, m, status, NoError) EXCEPT
       !.forwardedTo = forwardTo, !.attempts = n] :
      status \in {"FORWARDED", "FAILED"}, forwardTo \in ForwardTargets,
      n \in 1..2 }

InitLog ==
  /\ InitUpkeep
  /\ mailAccount = [a \in Accounts |-> AccountRow("CONNECTED", TRUE)]
  /\ forwardQueue = EmptyQueue
  /\ webhookSubscription = {}
  /\ \E first \in SUBSET LoggedRows("a1", "m1"),
        second \in SUBSET LoggedRows("a2", "m1") :
       /\ Cardinality(first) <= 1
       /\ Cardinality(second) <= 1
       /\ mailMessageLog = first \cup second
  /\ worker = [w \in Slots |-> IdleWorker]
  /\ req = [r \in Requests |-> IdleRequest]
  /\ received = 0
  /\ logger = IdleLogger
  /\ logCalls = 0
  /\ forwardCalls = [p \in Accounts \X Messages |-> 0]
  /\ notices = [reauth |-> 0, dev |-> 0]
  /\ InitServices

NextLog ==
  \/ LogForwardFind
  \/ LogForwardWrite

SpecLog == InitLog /\ [][NextLog]_vars

\* C21: logForward with status FORWARDED on a pair whose row is already
\* FORWARDED leaves the row's forwardStatus and forwardedTo (and every other
\* field) as they were; only attempts, which grows by one, and lastAttemptAt
\* change, and no row is added, however often the call is repeated.
C21_ForwardedStaysForwarded ==
  [][ (logger.pc = "write" /\ logger.status = "FORWARDED"
         /\ logger'.pc = "idle") =>
        \A row \in LogRows(mailMessageLog, logger.accountId,
                            logger.messageId) :
          row.forwardStatus = "FORWARDED" =>
            mailMessageLog' = (mailMessageLog \ {row}) \cup
              {[row EXCEPT !.attempts = @ + 1, !.lastAttemptAt = now']}
    ]_vars

\* A FORWARDED row that two more FORWARDED calls have gone over.
C21_Witness ==
  /\ logCalls = 2
  /\ logger.pc = "idle"
  /\ \E row \in mailMessageLog :
       /\ row.forwardStatus = "FORWARDED"
       /\ row.forwardedTo = "desk@example.com"
       /\ row.attempts = 4

\* ---------------------------------------------------------------------------
\* The processor over two queued notifications of one account whose messages
\* the owner may delete before their preview is read.
NextGone ==
  \/ \E w \in Slots : ProcessTake(w)
  \/ \E w \in Slots : ProcessPreview(w)
  \/ \E w \in Slots : ProcessForward(w)
  \/ \E w \in Slots : ProcessUpdate(w)
  \/ \E w \in Slots : CatchFind(w)
  \/ \E w \in Slots : CatchWrite(w)
  \/ \E w \in Slots : CatchNotify(w)
  \/ \E a \in Accounts, m \in Messages : DeleteMessage(a, m)

SpecGone == InitLedger /\ [][NextGone]_vars

\* C22: when the preview read reports that the message of the job is no
\* longer in the mailbox, the job ends there as skipped and not as failed: it
\* is removed without entering the failed list, no forward call is made, no
\* ledger row is written, the account (failedForwardCount, status) stays as
\* it is and no notification is sent.
C22_GoneMessageIsSkipped ==
  [][\A w \in Slots :
       ( /\ worker[w].pc = "preview"
         /\ worker'[w] # worker[w]
         /\ worker[w].job.messageId \notin mailbox[worker[w].job.accountId]
         /\ worker'[w].pc # "catch" )
       => /\ worker'[w] = IdleWorker
          /\ ~InFailed(forwardQueue', worker[w].job)
          /\ ~JobExists(forwardQueue', worker[w].job.jobId)
          /\ forwardCalls' = forwardCalls
          /\ mailMessageLog' = mailMessageLog
          /\ mailAccount' = mailAccount
          /\ notices' = notices]_vars

\* Both messages were deleted while their notifications were queued, and both
\* jobs are over without a trace.
C22_Witness ==
  /\ \E a \in Accounts : mailbox[a] = {}
  /\ forwardQueue = EmptyQueue
  /\ \A w \in Slots : worker[w].pc = "idle"
  /\ \A p \in Accounts \X Messages : forwardCalls[p] = 0
  /\ mailMessageLog = {}
  /\ notices = [reauth |-> 0, dev |-> 0]
  /\ \A a \in Accounts :
        /\ mailAccount[a].failedForwardCount = 0
        /\ mailAccount[a].status = "CONNECTED"

\* ---------------------------------------------------------------------------
\* C23: every failing pass of the processor raises the attempts of the pair's
\* ledger row by exactly one (a first failure creates the row with attempts
\* 1) and the account's failedForwardCount by exactly one, and a notification
\* that the gateway handles without a pass changes neither.
C23_FailingPassCounts ==
  [][ /\ \A w \in Slots :
           LET a == worker[w].job.accountId
               m == worker[w].job.messageId
               before == LogRows(mailMessageLog, a, m)
               after == LogRows(mailMessageLog', a, m)
           IN  /\ (worker[w].pc = "catch_write" /\ worker'[w] # worker[w]) =>
                    /\ worker'[w].pc = "catch_notify"
                    /\ Cardinality(after) = 1
                    /\ \A row \in after :
                         row.attempts =
                           IF before = {} THEN 1
                           ELSE (CHOOSE old \in before : TRUE).attempts + 1
               /\ (worker[w].pc = "catch_notify" /\ worker'[w] # worker[w]) =>
                    mailAccount'[a].failedForwardCount =
                      mailAccount[a].failedForwardCount + 1
      /\ (req' # req) =>
           /\ mailMessageLog' = mailMessageLog
           /\ \A a \in Accounts :
                mailAccount'[a].failedForwardCount =
                  mailAccount[a].failedForwardCount
    ]_vars

\* ---------------------------------------------------------------------------
\* C24: the generic error notification of failures outside the
\* authentication/suspension/quota class is rate-limited, at most one among
\* N (two or more) consecutive such failures of an account: an account that
\* has failed twice, both times outside that class, while nothing else has
\* failed, has caused at most one such notification.
C24_ErrorNoticeRateLimited ==
  \A a \in Accounts :
    ( /\ mailAccount[a].failedForwardCount = 2
      /\ \A o \in Accounts \ {a} : mailAccount[o].failedForwardCount = 0
      /\ notices.reauth = 0 )
    => notices.dev <= 1

\* ---------------------------------------------------------------------------
\* The catch block of the processor over the errors a pass can end with (no
\* response at all, or an HTTP status with or without a provider code of the
\* mail endpoints): a pass of one account's job has just caught the error.
CaughtErrors ==
  { [status |-> 0, code |-> ""] } \cup
  { [status |-> status, code |-> code] :
      status \in {400, 401, 403, 429, 500, 503},
      code \in {"", "ErrorItemNotFound"} \cup
               (AUTH_ERROR_CODES \ {"InvalidSubscription"}) }

InitClassify ==
  /\ \E a \in Accounts, e \in CaughtErrors :
       /\ forwardQueue = [EmptyQueue EXCEPT !.active = {MakeJob(a, "m1")}]
       /\ worker = [w \in Slots |->
            IF w = 1
            THEN [IdleWorker EXCEPT !.pc = "catch", !.job = MakeJob(a, "m1"),
                                    !.error = e]
            ELSE IdleWorker]
  /\ mailAccount \in [Accounts ->
       {AccountRow("CONNECTED", TRUE), AccountRow("NEEDS_REAUTH", TRUE)}]
  /\ webhookSubscription = {}
  /\ InitUpkeep
  /\ mailMessageLog = {}
  /\ req = [r \in Requests |-> IdleRequest]
  /\ received = 0
  /\ logger = IdleLogger
  /\ logCalls = 0
  /\ forwardCalls = [p \in Accounts \X Messages |-> 0]
  /\ notices = [reauth |-> 0, dev |-> 0]
  /\ InitServices

NextClassify ==
  \/ \E w \in Slots : CatchFind(w)
  \/ \E w \in Slots : CatchWrite(w)
  \/ \E w \in Slots : CatchNotify(w)

SpecClassify == InitClassify /\ [][NextClassify]_vars

\* The class of errors the statement names: HTTP 401 or 403, or a provider
\* code for a suspended account, an exceeded quota or an invalid token.
AuthSuspendQuotaClass(e) ==
  \/ e.status \in {401, 403}
  \/ e.code \in {"ErrorAccountSuspend", "ErrorExceededMessageLimit",
                 "InvalidAuthenticationToken", "CompactToken.Validation"}

\* C25: a failed pass sets the account's status to ERROR exactly when its
\* error is of the authentication/suspension/quota class; an error of any
\* other class, a 429 or a 5xx among them, leaves the status as it was.
C25_ErrorExactlyOnAuthClass ==
  [][\A w \in Slots :
       (worker[w].pc = "catch_notify" /\ worker'[w].pc = "idle") =>
         LET a == worker[w].job.accountId
         IN  mailAccount'[a].status =
               IF AuthSuspendQuotaClass(worker[w].error)
               THEN "ERROR" ELSE mailAccount[a].status]_vars

\* ---------------------------------------------------------------------------
(* Operator action: DELETE /api/accounts/:id *)

\* router.delete("/:id"): an unknown id is answered 404; otherwise the row of
\* mail_accounts is deleted, and with it the rows the foreign keys with
\* ON DELETE CASCADE tie to it: mail_tokens, mail_sync_state and
\* mail_message_log. webhook_subscriptions has no foreign key.
DeleteAccount(a) ==
  /\ AccountExists(a)
  /\ mailAccount' = [mailAccount EXCEPT ![a] = NoAccount]
  /\ mailToken' = [mailToken EXCEPT ![a] = NoToken]
  /\ mailSyncState' = mailSyncState \ {a}
  /\ mailMessageLog' = {row \in mailMessageLog : row.accountId # a}
  /\ UNCHANGED <<webhookSubscription, forwardQueue, worker, req, received,
                 logger, logCalls, forwardCalls, notices, upkeepVars,
                 tokenCall, refreshCalls, filterVars, schedule, sweepVars,
                 mailbox, oauth, pollQueue, cycle,
                 callVars>>

\* Two connected accounts, each with its credential, its cursor and its
\* subscription, and a ledger that earlier deliveries left.
InitDelete ==
  /\ InitUpkeep
  /\ mailAccount = [a \in Accounts |-> AccountRow("CONNECTED", TRUE)]
  /\ webhookSubscription =
       { SubscriptionRow("a1", "s1", "k1", subscriptionLifetimeMinutes),
         SubscriptionRow("a2", "s2", "k2", subscriptionLifetimeMinutes) }
  /\ forwardQueue = EmptyQueue
  /\ \E first \in SUBSET LoggedRows("a1", "m1"),
        second \in SUBSET LoggedRows("a2", "m1") :
       /\ Cardinality(first) <= 1
       /\ Cardinality(second) <= 1
       /\ mailMessageLog = first \cup second
  /\ worker = [w \in Slots |-> IdleWorker]
  /\ req = [r \in Requests |-> IdleRequest]
  /\ received = 0
  /\ logger = IdleLogger
  /\ logCalls = 0
  /\ forwardCalls = [p \in Accounts \X Messages |-> 0]
  /\ notices = [reauth |-> 0, dev |-> 0]
  /\ mailToken = [a \in Accounts |->
       [accessToken |-> "at0", refreshToken |-> "rt0",
        expiresAt |-> expires_in]]
  /\ tokenCall = NoTokenCall
  /\ refreshCalls = 0
  /\ InitFilter
  /\ InitSchedule
  /\ InitSweep
  /\ InitEdge

NextDelete ==
  \/ \E a \in Accounts : DeleteAccount(a)
  \/ LogForwardFind
  \/ LogForwardWrite

SpecDelete == InitDelete /\ [][NextDelete]_vars

\* C27: once an account is deleted, no credential, cursor, subscription or
\* ledger row that refers to it remains.
C27_NoRowsAfterDelete ==
  \A a \in Accounts :
    ~AccountExists(a) =>
      /\ mailToken[a] = NoToken
      /\ a \notin mailSyncState
      /\ \A row \in mailMessageLog : row.accountId # a
      /\ \A row \in webhookSubscription : row.accountId # a

\* ---------------------------------------------------------------------------
\* C30: for a batch with entries the 202 is sent before the first entry is
\* validated or enqueued: when the handler enters its loop the response is
\* out while nothing has been validated, read or added for the request, and
\* every validation, account read and queue add of a request happens with
\* exactly that one response already sent.
C30_AcceptedBeforeWork ==
  [][\A r \in Requests :
       /\ (req[r].pc = "idle" /\ req'[r].pc = "validate") =>
            /\ Len(req'[r].responses) = 1
            /\ req'[r].responses[1].status = 202
            /\ req'[r].remaining >= 1
            /\ req'[r].accountId = NoValue
            /\ req'[r].account = NoAccount
            /\ req'[r].last = NoValue
            /\ forwardQueue' = forwardQueue
       /\ (req[r].pc \in {"validate", "account", "add"}
             /\ req'[r] # req[r]) =>
            /\ Len(req[r].responses) = 1
            /\ req[r].responses[1].status = 202
            /\ req'[r].responses = req[r].responses]_vars

\* The first request has answered 202 for its batch and has not validated
\* anything yet; nothing is queued.
C30_Witness ==
  /\ req[1].pc = "validate"
  /\ req[1].remaining = MaxBatch
  /\ req[1].last = NoValue
  /\ req[1].responses = <<Response(202, NoValue, "")>>
  /\ forwardQueue = EmptyQueue

\* ---------------------------------------------------------------------------
(* The polling worker: scheduleAllSyncs and the queue "mail-sync" of worker.js *)

\* How far the clock of the polling worker runs.
PollClock == 1

PollJob(name, accountId, t) ==
  [ name |-> name, accountId |-> accountId,
    jobId |-> <<name, accountId, t>>, state |-> "waiting" ]

\* syncQueue.getJobs(["waiting", "active", "delayed"])
getJobs(q) == {job \in q.jobs : job.state \in {"waiting", "active", "delayed"}}

\* syncQueue.add(name, data, { jobId }): Bull ignores an add whose job id the
\* queue already holds.
PollAdd(q, job) ==
  IF \E held \in q.jobs : held.jobId = job.jobId THEN q
  ELSE [q EXCEPT !.jobs = @ \cup {job}]

ToSync(a) == mailAccount[a].status = "CONNECTED" /\ mailAccount[a].isEnabled

\* scheduleAllSyncs, up to its first await: the accounts to sync are read; a
\* cycle that finds none ends there.
CycleStart(c) ==
  /\ cycle[c].pc = "idle"
  /\ SelectSeq(AccountOrder, ToSync) # << >>
  /\ cycle' = [cycle EXCEPT ![c] =
       [IdleCycle EXCEPT !.pc = "jobs",
                         !.accounts = SelectSeq(AccountOrder, ToSync)]]
  /\ UNCHANGED <<mailAccount, webhookSubscription, deliveryVars, upkeepVars,
                 tokenVars, filterVars, schedule, sweepVars, mailbox,
                 mailSyncState, oauth, pollQueue, callVars>>

\* The jobs that are waiting, active or delayed are read once per cycle.
CycleGetJobs(c) ==
  /\ cycle[c].pc = "jobs"
  /\ LET existingJobs == getJobs(pollQueue)
     IN  cycle' = [cycle EXCEPT ![c] = [@ EXCEPT
           !.pc = "add",
           !.pendingAccountIds =
              {job.accountId :
                 job \in {j \in existingJobs : j.name = "sync-mailbox"}},
           !.hasRetryJob =
              \E job \in existingJobs : job.name = "retry-failed"]]
  /\ UNCHANGED <<mailAccount, webhookSubscription, deliveryVars, upkeepVars,
                 tokenVars, filterVars, schedule, sweepVars, mailbox,
                 mailSyncState, oauth, pollQueue, callVars>>

\* One turn of the loop: an account that was pending when the jobs were read
\* is skipped, any other gets a job named after the account and the time.
CycleAdd(c) ==
  /\ cycle[c].pc = "add"
  /\ cycle[c].accounts # << >>
  /\ LET account == Head(cycle[c].accounts)
     IN  pollQueue' =
           IF account \in cycle[c].pendingAccountIds THEN pollQueue
           ELSE PollAdd(pollQueue,
                        PollJob("sync-mailbox", account, pollQueue.clock))
  /\ cycle' = [cycle EXCEPT ![c].accounts = Tail(@)]
  /\ UNCHANGED <<mailAccount, webhookSubscription, deliveryVars, upkeepVars,
                 tokenVars, filterVars, schedule, sweepVars, mailbox,
                 mailSyncState, oauth, callVars>>

\* After the loop the retry job is added unless one was among the jobs read.
CycleRetry(c) ==
  /\ cycle[c].pc = "add"
  /\ cycle[c].accounts = << >>
  /\ pollQueue' =
       IF cycle[c].hasRetryJob THEN pollQueue
       ELSE PollAdd(pollQueue,
                    PollJob("retry-failed", NoValue, pollQueue.clock))
  /\ cycle' = [cycle EXCEPT ![c] = IdleCycle]
  /\ UNCHANGED <<mailAccount, webhookSubscription, deliveryVars, upkeepVars,
                 tokenVars, filterVars, schedule, sweepVars, mailbox,
                 mailSyncState, oauth, callVars>>

\* syncQueue.process: a waiting job becomes active ...
PollTake ==
  /\ \E job \in pollQueue.jobs :
       /\ job.state = "waiting"
       /\ pollQueue' = [pollQueue EXCEPT !.jobs =
            (@ \ {job}) \cup {[job EXCEPT !.state = "active"]}]
  /\ UNCHANGED <<mailAccount, webhookSubscription, deliveryVars, upkeepVars,
                 tokenVars, filterVars, schedule, sweepVars, mailbox,
                 mailSyncState, oauth, cycle,
                 callVars>>

\* ... and leaves the pending jobs when its processor returns.
PollDone ==
  /\ \E job \in pollQueue.jobs :
       /\ job.state = "active"
       /\ pollQueue' = [pollQueue EXCEPT !.jobs = @ \ {job}]
  /\ UNCHANGED <<mailAccount, webhookSubscription, deliveryVars, upkeepVars,
                 tokenVars, filterVars, schedule, sweepVars, mailbox,
                 mailSyncState, oauth, cycle,
                 callVars>>

\* Date.now() moves on.
PollClockTick ==
  /\ pollQueue.clock < PollClock
  /\ pollQueue' = [pollQueue EXCEPT !.clock = @ + 1]
  /\ UNCHANGED <<mailAccount, webhookSubscription, deliveryVars, upkeepVars,
                 tokenVars, filterVars, schedule, sweepVars, mailbox,
                 mailSyncState, oauth, cycle,
                 callVars>>

InitPoll ==
  /\ mailAccount = [a \in Accounts |-> AccountRow("CONNECTED", TRUE)]
  /\ forwardQueue = EmptyQueue
  /\ InitRest

NextPoll ==
  \/ \E c \in Cycles : CycleStart(c)
  \/ \E c \in Cycles : CycleGetJobs(c)
  \/ \E c \in Cycles : CycleAdd(c)
  \/ \E c \in Cycles : CycleRetry(c)
  \/ PollTake
  \/ PollDone
  \/ PollClockTick

SpecPoll == InitPoll /\ [][NextPoll]_vars

\* C29: no account ever has two sync-mailbox jobs waiting, delayed or active
\* at the same time, also when scheduling cycles overlap.
C29_OnePendingSyncPerAccount ==
  \A a \in Accounts :
    Cardinality({job \in getJobs(pollQueue) :
                   job.name = "sync-mailbox" /\ job.accountId = a}) <= 1

\* ---------------------------------------------------------------------------
(* The re-auth link and the OAuth callback *)

\* Text is a sequence of characters; Ascii lists the printable ones from
\* code 32 on, so that the character at position i has code 31 + i.
Ascii ==
  <<
    " ", "!", "\"", "#", "$", "%", "&", "'", "(", ")", "*", "+", ",", "-",
    ".", "/", "0", "1", "2", "3", "4", "5", "6", "7", "8", "9", ":", ";",
    "<", "=", ">", "?", "@", "A", "B", "C", "D", "E", "F", "G", "H", "I",
    "J", "K", "L", "M", "N", "O", "P", "Q", "R", "S", "T", "U", "V", "W",
    "X", "Y", "Z", "[", "\\", "]", "^", "_", "grave", "a", "b", "c", "d", "e",
    "f", "g", "h", "i", "j", "k", "l", "m", "n", "o", "p", "q", "r", "s",
    "t", "u", "v", "w", "x", "y", "z", "{", "|", "}", "~"
  >>

\* The alphabet of Buffer's "base64url" encoding, which writes no padding.
Base64Url ==
  <<
    "A", "B", "C", "D", "E", "F", "G", "H", "I", "J", "K", "L", "M", "N",
    "O", "P", "Q", "R", "S", "T", "U", "V", "W", "X", "Y", "Z", "a", "b",
    "c", "d", "e", "f", "g", "h", "i", "j", "k", "l", "m", "n", "o", "p",
    "q", "r", "s", "t", "u", "v", "w", "x", "y", "z", "0", "1", "2", "3",
    "4", "5", "6", "7", "8", "9", "-", "_"
  >>

\* The code of each printable character, and the value of each character of
\* the base64url alphabet.
CharCode ==
  [ch \in {Ascii[i] : i \in 1..Len(Ascii)} |->
     31 + (CHOOSE i \in 1..Len(Ascii) : Ascii[i] = ch)]

SextetValue ==
  [ch \in {Base64Url[i] : i \in 1..Len(Base64Url)} |->
     (CHOOSE i \in 1..Len(Base64Url) : Base64Url[i] = ch) - 1]

\* Buffer.from(text).toString("base64url"): three bytes give four characters,
\* and a rest of one or two bytes gives two or three.
RECURSIVE toBase64url(_)
toBase64url(text) ==
  IF Len(text) = 0 THEN << >>
  ELSE LET b1 == CharCode[text[1]]
           b2 == IF Len(text) > 1 THEN CharCode[text[2]] ELSE 0
           b3 == IF Len(text) > 2 THEN CharCode[text[3]] ELSE 0
           c1 == Base64Url[(b1 \div 4) + 1]
           c2 == Base64Url[(b1 % 4) * 16 + (b2 \div 16) + 1]
           c3 == Base64Url[(b2 % 16) * 4 + (b3 \div 64) + 1]
           c4 == Base64Url[(b3 % 64) + 1]
       IN  IF Len(text) = 1 THEN <<c1, c2>>
           ELSE IF Len(text) = 2 THEN <<c1, c2, c3>>
           ELSE <<c1, c2, c3, c4>> \o toBase64url(SubSeq(text, 4, Len(text)))

\* Buffer.from(text, "base64url").toString(): four characters give three
\* bytes, and a rest of two or three characters gives one or two.
RECURSIVE fromBase64url(_)
fromBase64url(text) ==
  IF Len(text) < 2 THEN << >>
  ELSE LET x1 == SextetValue[text[1]]
           x2 == SextetValue[text[2]]
           x3 == IF Len(text) > 2 THEN SextetValue[text[3]] ELSE 0
           x4 == IF Len(text) > 3 THEN SextetValue[text[4]] ELSE 0
           d1 == Ascii[x1 * 4 + (x2 \div 16) - 31]
           d2 == Ascii[(x2 % 16) * 16 + (x3 \div 4) - 31]
           d3 == Ascii[(x3 % 4) * 64 + x4 - 31]
       IN  IF Len(text) = 2 THEN <<d1>>
           ELSE IF Len(text) = 3 THEN <<d1, d2>>
           ELSE <<d1, d2, d3>> \o fromBase64url(SubSeq(text, 5, Len(text)))

\* The accountId of a state that names no account (null), and what a state
\* that cannot be parsed gives.
NullId == <<"null">>

SyntaxError == <<"SyntaxError">>

\* JSON.stringify({ accountId, nonce, timestamp })
stringify(accountId, nonce, timestamp) ==
  LET RECURSIVE Digits(_)
      Digits(n) ==
        IF n < 10 THEN <<Ascii[17 + n]>>
        ELSE Digits(n \div 10) \o <<Ascii[17 + (n % 10)]>>
      Quoted(text) == <<"\"">> \o text \o <<"\"">>
  IN  <<"{", "\"", "a", "c", "c", "o", "u", "n", "t", "I", "d", "\"", ":">>
      \o (IF accountId = NullId THEN <<"n", "u", "l", "l">> ELSE Quoted(accountId))
      \o <<",", "\"", "n", "o", "n", "c", "e", "\"", ":">>
      \o Quoted(nonce)
      \o <<",", "\"", "t", "i", "m", "e", "s", "t", "a", "m", "p", "\"", ":">>
      \o Digits(timestamp) \o <<"}">>

\* JSON.parse(text).accountId, for an object whose first member is accountId.
parseAccountId(text) ==
  LET key == <<"{", "\"", "a", "c", "c", "o", "u", "n", "t", "I", "d", "\"", ":">>
      n == Len(key)
  IN  IF Len(text) < n + 4 \/ SubSeq(text, 1, n) # key THEN SyntaxError
      ELSE IF SubSeq(text, n + 1, n + 4) = <<"n", "u", "l", "l">> THEN NullId
      ELSE IF text[n + 1] # "\"" THEN SyntaxError
      ELSE LET rest == SubSeq(text, n + 2, Len(text))
               closing == {i \in 1..Len(rest) : rest[i] = "\""}
           IN  IF closing = {} THEN SyntaxError
               ELSE SubSeq(rest, 1,
                      (CHOOSE i \in closing :
                         \A j \in closing : i <= j) - 1)

\* A faulty variant that builds the state of a new connection, which names
\* no account.
generateAuthUrlNew(accountId, nonce, timestamp) ==
  toBase64url(stringify(NullId, nonce, timestamp))

\* generateAuthUrl(accountId): the state parameter of the authorization URL.
generateAuthUrl(accountId, nonce, timestamp) ==
  toBase64url(stringify(accountId, nonce, timestamp))

\* The id of an account's row, as text.
IdText(a) == IF a = "a1" THEN <<"a", "1">> ELSE <<"a", "2">>

\* The ids a re-auth link is asked for: those of the accounts and one that
\* no account has.
RequestedIds == {IdText(a) : a \in Accounts} \cup {<<"a", "9">>}

\* uuidv4() and Date.now(): texts and numbers of two lengths each, so that
\* the encoded text ends on every remainder of its length by three.
Nonces == {<<"0">>, <<"a", "-">>}

Timestamps == {7, 17}

\* The mailboxes a user can sign in to: those of the two accounts, and one
\* that no account is registered for.
EmailOf(a) == a \o "@example.com"

Emails == {EmailOf(a) : a \in Accounts} \cup {"new@example.com"}

\* prisma.mailAccount.findUnique({ where: { id } })
FindById(accounts, id) ==
  {a \in Accounts : accounts[a] # NoAccount /\ IdText(a) = id}

\* The rows whose unique column email holds this address.
FindByEmail(accounts, email) ==
  {a \in Accounts : accounts[a] # NoAccount /\ accounts[a].email = email}

\* router.get("/reauth/:id"): 404 for an id no row has, else the redirect to
\* the authorization URL, whose state is kept here.
Reauth(id, nonce, timestamp) ==
  /\ oauth' =
       IF FindById(mailAccount, id) = {}
       THEN [NoOAuth EXCEPT !.id = id, !.status = 404]
       ELSE [NoOAuth EXCEPT !.id = id, !.status = 302,
                            !.state = generateAuthUrl(id, nonce, timestamp)]
  /\ UNCHANGED <<mailAccount, webhookSubscription, deliveryVars, upkeepVars,
                 tokenVars, filterVars, schedule, sweepVars, mailbox,
                 mailSyncState, pollQueue, cycle,
                 callVars>>

\* router.get("/oauth/url"): the URL of a new connection, whose state names no
\* account.
OAuthUrl(nonce, timestamp) ==
  /\ oauth' = [NoOAuth EXCEPT !.id = NullId, !.status = 200,
                              !.state = generateAuthUrl(NullId, nonce, timestamp)]
  /\ UNCHANGED <<mailAccount, webhookSubscription, deliveryVars, upkeepVars,
                 tokenVars, filterVars, schedule, sweepVars, mailbox,
                 mailSyncState, pollQueue, cycle,
                 callVars>>

\* exchangeCodeForTokens: what the token endpoint answers to an authorization
\* code, which under the scope offline_access carries a refresh token.
CodeResponses ==
  {tokens \in TokenResponses(1) : tokens.ok => tokens.refresh_token # NoValue}

\* The flows followed until they subscribe the account.
MaxFlows == 2

\* The data of both writes: status CONNECTED, lastError null, errorCount 0.
Reconnected(account, email) ==
  [account EXCEPT !.email = email, !.status = "CONNECTED",
                  !.lastError = NoValue, !.errorCount = 0]

\* completeOAuthFlow(code, state), called by the callback with the state the
\* URL carried: the user signed in to the mailbox `email`, the token endpoint
\* answered `tokens` and the provider answered `create` to the subscription.
\* A state that does not parse, a failed exchange, an update of a row that is
\* gone or to an address another row holds, all throw before anything is
\* written; a failed subscription is logged only.
CompleteOAuthFlow(email, tokens, create) ==
  /\ oauth.status \in {200, 302}
  /\ ~oauth.completed
  /\ issued < MaxFlows
  /\ LET accountId == parseAccountId(fromBase64url(oauth.state))
         byId == FindById(mailAccount, accountId)
         byEmail == FindByEmail(mailAccount, email)
         free == {a \in Accounts : mailAccount[a] = NoAccount}
         target == IF accountId # NullId THEN byId
                   ELSE IF byEmail # {} THEN byEmail
                   ELSE free
         throws == \/ accountId = SyntaxError
                   \/ ~tokens.ok
                   \/ accountId # NullId /\ byId = {}
                   \/ accountId # NullId /\ byEmail \ byId # {}
     IN  /\ accountId = NullId => target # {}
         /\ IF throws
            THEN /\ oauth' = [oauth EXCEPT !.accountId = accountId,
                                           !.completed = TRUE, !.threw = TRUE]
                 /\ UNCHANGED <<mailAccount, mailToken, mailSyncState,
                                webhookSubscription, provider, issued>>
            ELSE LET a == CHOOSE x \in target : TRUE
                     row == IF mailAccount[a] = NoAccount
                            THEN [email |-> email] @@ AccountRow("CONNECTED", TRUE)
                            ELSE Reconnected(mailAccount[a], email)
                     w == createSubscription(
                            World(webhookSubscription, provider, issued),
                            a, now, create)
                 IN  /\ mailAccount' = [mailAccount EXCEPT ![a] = row]
                     /\ mailToken' =
                          [mailToken EXCEPT ![a] = storeTokens(@, tokens, now)]
                     /\ mailSyncState' = mailSyncState \cup {a}
                     /\ webhookSubscription' = w.rows
                     /\ provider' = w.provider
                     /\ issued' = w.issued
                     /\ oauth' = [oauth EXCEPT !.accountId = accountId,
                                               !.completed = TRUE]
  /\ UNCHANGED <<deliveryVars, validated, now, planDue, syncQueue, faults,
                 renewal, tokenCall, refreshCalls, filterVars, schedule,
                 sweepVars, mailbox, pollQueue, cycle,
                 callVars>>

\* The states an account that lost its connection is left in.
Disconnected ==
  { [ [email |-> "x"] @@ AccountRow(status, TRUE) EXCEPT
        !.lastError = "Token refresh failed: invalid_grant",
        !.errorCount = 3 ] : status \in {"NEEDS_REAUTH", "ERROR"} }

\* Two accounts that lost their connection, each with the address of its
\* mailbox, or one such account beside a row that was never created.
InitOAuth ==
  /\ InitUpkeep
  /\ \E first \in Disconnected, second \in Disconnected \cup {NoAccount} :
       mailAccount =
         [a \in Accounts |->
            LET row == IF a = "a1" THEN first ELSE second
            IN  IF row = NoAccount THEN row
                ELSE [row EXCEPT !.email = EmailOf(a)]]
  /\ webhookSubscription = {}
  /\ forwardQueue = EmptyQueue
  /\ InitDelivery
  /\ InitTokenStore
  /\ InitFilter
  /\ InitSchedule
  /\ InitSweep
  /\ mailbox = [a \in Accounts |-> Messages]
  /\ mailSyncState = {a \in Accounts : mailAccount[a] # NoAccount}
  /\ oauth = NoOAuth
  /\ pollQueue = EmptyPollQueue
  /\ cycle = [c \in Cycles |-> IdleCycle]
  /\ InitCalls

NextOAuth ==
  \/ \E id \in RequestedIds, nonce \in Nonces, timestamp \in Timestamps :
       Reauth(id, nonce, timestamp)
  \/ \E nonce \in Nonces, timestamp \in Timestamps : OAuthUrl(nonce, timestamp)
  \/ \E email \in Emails, tokens \in CodeResponses,
        create \in {Ok} \cup {f \in CallFaults : f.status = 503} :
       CompleteOAuthFlow(email, tokens, create)
  \/ \E a \in Accounts : DeleteAccount(a)

SpecOAuth == InitOAuth /\ [][NextOAuth]_vars

\* C28: the link of an existing account id answers 302 with a state that
\* completeOAuthFlow decodes to that id, and the link of an unknown id answers
\* 404 with no state; a flow completed with the state of such a link leaves
\* that account CONNECTED with lastError cleared and errorCount 0 and every
\* other account as it was, and a flow that throws changes no account.
C28_ReauthNamesItsAccount ==
  [][ /\ (oauth' # oauth /\ oauth'.status \in {302, 404}
            /\ ~oauth'.completed) =>
           IF FindById(mailAccount, oauth'.id) # {}
           THEN /\ oauth'.status = 302
                /\ parseAccountId(fromBase64url(oauth'.state)) = oauth'.id
           ELSE /\ oauth'.status = 404
                /\ oauth'.state = << >>
      /\ (oauth.status = 302 /\ ~oauth.completed /\ oauth'.completed) =>
           IF oauth'.threw THEN mailAccount' = mailAccount
           ELSE \E a \in FindById(mailAccount, oauth.id) :
                  /\ mailAccount'[a].status = "CONNECTED"
                  /\ mailAccount'[a].lastError = NoValue
                  /\ mailAccount'[a].errorCount = 0
                  /\ \A b \in Accounts \ {a} :
                       mailAccount'[b] = mailAccount[b] ]_vars

\* The flow of account a1's link has completed: a1 is connected again and a2
\* still waits with its error.
C28_Witness ==
  /\ oauth.id = IdText("a1")
  /\ oauth.status = 302
  /\ oauth.accountId = IdText("a1")
  /\ oauth.completed
  /\ ~oauth.threw
  /\ mailAccount["a1"].status = "CONNECTED"
  /\ mailAccount["a1"].lastError = NoValue
  /\ mailAccount["a1"].errorCount = 0
  /\ mailAccount["a2"] # NoAccount
  /\ mailAccount["a2"].status = "NEEDS_REAUTH"
  /\ mailAccount["a2"].errorCount = 3

\* ---------------------------------------------------------------------------
\* C31: an entry whose validation raises, after the 202 has been sent, is
\* caught by the loop: the request keeps its single response, the entry
\* counts as handled, and the loop goes on to the next entry of the batch
\* when there is one.
C31_RaisedEntryIsCaught ==
  [][\A r \in Requests :
       (req[r].pc = "validate" /\ req'[r].pc # "account"
          /\ req'[r] # req[r] /\ req'[r].last = "raised") =>
         /\ req[r].responses = <<Accepted>>
         /\ req'[r].responses = req[r].responses
         /\ req'[r].remaining = req[r].remaining - 1
         /\ req'[r].pc = IF req[r].remaining > 1 THEN "validate" ELSE "done"
         /\ forwardQueue' = forwardQueue]_vars

\* The first entry of a batch raised and the handler stands before the next
\* entry, with the one response it sent.
C31_Witness ==
  /\ req[1].last = "raised"
  /\ req[1].pc = "validate"
  /\ req[1].remaining >= 1
  /\ req[1].responses = <<Accepted>>

\* ---------------------------------------------------------------------------
(* createSubscription and renewSubscription under overlapping calls *)

\* The subscriptions the provider is asked for while the calls overlap.
MaxSubscriptions == 3

\* The locals of a call: the account, the subscriptionId renewSubscription
\* read, what the POST or the PATCH answered with the clientState sent, and
\* what the upsert's read found.
SubscriptionCall(pc, accountId) ==
  [ pc |-> pc, accountId |-> accountId, existing |-> NoValue,
    subscriptionId |-> NoValue, clientState |-> NoValue, expiresAt |-> 0,
    found |-> FALSE ]

\* A table without its unique indexes: every insert is accepted.
SubscriptionKeyUnchecked(rows, row) == TRUE

\* UNIQUE INDEX on accountId and on subscriptionId: the insert of a row is
\* accepted when no row holds either of its keys.
SubscriptionKeyFree(rows, row) ==
  ~\E held \in rows :
     \/ held.accountId = row.accountId
     \/ held.subscriptionId = row.subscriptionId

\* What the calls of the subscription service leave alone.
subscriptionRest ==
  <<mailAccount, deliveryVars, validated, now, planDue, syncQueue, faults,
    renewal, tokenVars, filterVars, schedule, sweepVars, edgeVars,
    systemSetting, forwardToCache>>

\* createSubscription(accountId) is called, by the create job or by an OAuth
\* completion.
CreateStart(c, a) ==
  /\ serviceCalls[c].pc = "idle"
  /\ serviceCalls' = [serviceCalls EXCEPT ![c] = SubscriptionCall("post", a)]
  /\ UNCHANGED <<webhookSubscription, provider, issued, subscriptionRest>>

\* renewSubscription(accountId), up to its first await: without a row it is
\* createSubscription, with one the PATCH of the subscription read comes next.
RenewStart(c, a) ==
  /\ serviceCalls[c].pc = "idle"
  /\ LET existing == {s \in webhookSubscription : s.accountId = a}
     IN  serviceCalls' = [serviceCalls EXCEPT ![c] =
           IF existing = {} THEN SubscriptionCall("post", a)
           ELSE [SubscriptionCall("patch", a) EXCEPT
                   !.existing = (CHOOSE s \in existing : TRUE).subscriptionId]]
  /\ UNCHANGED <<webhookSubscription, provider, issued, subscriptionRest>>

\* createSubscription: the token, a new clientState and the POST. A failure
\* of either throws; otherwise the provider holds a new subscription.
SubscriptionPost(c) ==
  /\ serviceCalls[c].pc = "post"
  /\ issued < MaxSubscriptions
  /\ \E answer \in {Ok} \cup CallFaults :
       IF answer # Ok
       THEN /\ serviceCalls' = [serviceCalls EXCEPT ![c] = IdleCall]
            /\ UNCHANGED <<provider, issued>>
       ELSE LET n == issued + 1
                expiresAt == getExpirationDateTime(now)
            IN  /\ issued' = n
                /\ provider' = provider \cup
                     {[id |-> ProviderSubscriptionId(n), expiresAt |-> expiresAt]}
                /\ serviceCalls' = [serviceCalls EXCEPT ![c] =
                     [@ EXCEPT !.pc = "find",
                               !.subscriptionId = ProviderSubscriptionId(n),
                               !.clientState = generateClientState(n),
                               !.expiresAt = expiresAt]]
  /\ UNCHANGED <<webhookSubscription, subscriptionRest>>

\* prisma.webhookSubscription.upsert, its read by accountId.
UpsertFind(c) ==
  /\ serviceCalls[c].pc = "find"
  /\ serviceCalls' = [serviceCalls EXCEPT ![c] =
       [@ EXCEPT !.pc = "write",
                 !.found = \E s \in webhookSubscription :
                              s.accountId = serviceCalls[c].accountId]]
  /\ UNCHANGED <<webhookSubscription, provider, issued, subscriptionRest>>

\* prisma.webhookSubscription.upsert, its write: the update of the row read,
\* or the insert, which the unique indexes may reject; a row that has gone
\* since the read is not written.
UpsertWrite(c) ==
  /\ serviceCalls[c].pc = "write"
  /\ LET call == serviceCalls[c]
         row == SubscriptionRow(call.accountId, call.subscriptionId,
                                call.clientState, call.expiresAt)
     IN  webhookSubscription' =
           IF call.found
           THEN {IF s.accountId = call.accountId THEN row ELSE s :
                   s \in webhookSubscription}
           ELSE IF SubscriptionKeyFree(webhookSubscription, row)
           THEN webhookSubscription \cup {row}
           ELSE webhookSubscription
  /\ serviceCalls' = [serviceCalls EXCEPT ![c] = IdleCall]
  /\ UNCHANGED <<provider, issued, subscriptionRest>>

\* renewSubscription: the token and the PATCH of the subscription read. On
\* success the update of expiresAt is next, on invalid/expired the recreation,
\* and any other failure is thrown.
RenewPatch(c) ==
  /\ serviceCalls[c].pc = "patch"
  /\ \E answer \in {PatchAnswer(provider, serviceCalls[c].existing, now)}
                     \cup CallFaults :
       IF answer = Ok
       THEN LET expiresAt == getExpirationDateTime(now)
            IN  /\ provider' =
                     {IF p.id = serviceCalls[c].existing
                      THEN [p EXCEPT !.expiresAt = expiresAt] ELSE p :
                      p \in provider}
                /\ serviceCalls' = [serviceCalls EXCEPT ![c] =
                     [@ EXCEPT !.pc = "update", !.expiresAt = expiresAt]]
       ELSE /\ serviceCalls' = [serviceCalls EXCEPT ![c] =
                 IF RecreateOnError(answer) THEN [@ EXCEPT !.pc = "delete"]
                 ELSE IdleCall]
            /\ UNCHANGED provider
  /\ UNCHANGED <<webhookSubscription, issued, subscriptionRest>>

\* renewSubscription: prisma.webhookSubscription.update where accountId, which
\* sets expiresAt.
RenewUpdate(c) ==
  /\ serviceCalls[c].pc = "update"
  /\ webhookSubscription' =
       {IF s.accountId = serviceCalls[c].accountId
        THEN [s EXCEPT !.expiresAt = serviceCalls[c].expiresAt] ELSE s :
        s \in webhookSubscription}
  /\ serviceCalls' = [serviceCalls EXCEPT ![c] = IdleCall]
  /\ UNCHANGED <<provider, issued, subscriptionRest>>

\* renewSubscription's catch: deleteMany where accountId, then
\* createSubscription.
RenewDelete(c) ==
  /\ serviceCalls[c].pc = "delete"
  /\ webhookSubscription' =
       {s \in webhookSubscription : s.accountId # serviceCalls[c].accountId}
  /\ serviceCalls' = [serviceCalls EXCEPT ![c] =
       SubscriptionCall("post", @.accountId)]
  /\ UNCHANGED <<provider, issued, subscriptionRest>>

\* Two connected accounts without a subscription, and no call in flight.
InitSubscribe ==
  /\ mailAccount = [a \in Accounts |-> AccountRow("CONNECTED", TRUE)]
  /\ webhookSubscription = {}
  /\ forwardQueue = EmptyQueue
  /\ InitDelivery
  /\ InitUpkeep
  /\ InitServices

NextSubscribe ==
  \/ \E c \in Callers, a \in Accounts : CreateStart(c, a)
  \/ \E c \in Callers, a \in Accounts : RenewStart(c, a)
  \/ \E c \in Callers : SubscriptionPost(c)
  \/ \E c \in Callers : UpsertFind(c)
  \/ \E c \in Callers : UpsertWrite(c)
  \/ \E c \in Callers : RenewPatch(c)
  \/ \E c \in Callers : RenewUpdate(c)
  \/ \E c \in Callers : RenewDelete(c)

SpecSubscribe == InitSubscribe /\ [][NextSubscribe]_vars

\* The rows of the table pairwise differ in accountId and in subscriptionId,
\* and each holds the id and the clientState of one provider subscription.
SubscriptionsConsistent(rows) ==
  /\ \A s, t \in rows :
       (s.accountId = t.accountId \/ s.subscriptionId = t.subscriptionId)
         => s = t
  /\ \A s \in rows : \E n \in 1..issued :
       /\ s.subscriptionId = ProviderSubscriptionId(n)
       /\ s.clientState = generateClientState(n)

\* C32: whatever the interleaving of createSubscription and renewSubscription
\* calls, there is at most one row per accountId, no two rows share a
\* subscriptionId, the subscriptionId and the clientState of a row are those
\* of one provider subscription, and a write of the upsert leaves the row of
\* its account with the pair of the call that wrote.
C32_OneConsistentRowPerAccount ==
  /\ [] SubscriptionsConsistent(webhookSubscription)
  /\ [][\A c \in Callers :
          (serviceCalls[c].pc = "write" /\ serviceCalls'[c].pc = "idle"
             /\ webhookSubscription' # webhookSubscription) =>
            \E s \in webhookSubscription' :
              /\ s.accountId = serviceCalls[c].accountId
              /\ s.subscriptionId = serviceCalls[c].subscriptionId
              /\ s.clientState = serviceCalls[c].clientState]_vars

\* Two calls for a1 overlapped: both subscribed at the provider, and the row
\* holds the pair of the subscription made first, which was stored last.
C32_Witness ==
  /\ issued = 2
  /\ \A c \in Callers : serviceCalls[c].pc = "idle"
  /\ Cardinality(webhookSubscription) = 1
  /\ \E s \in webhookSubscription :
       /\ s.accountId = "a1"
       /\ s.subscriptionId = ProviderSubscriptionId(1)
       /\ s.clientState = generateClientState(1)

\* ---------------------------------------------------------------------------
\* C33: a renewSubscription call whose token or PATCH fails with anything but
\* 404, 400 or InvalidSubscription throws and leaves the table as it was (the
\* account's row keeps its subscriptionId, clientState and expiresAt), and the
\* renew job does not complete: it is queued for another attempt or kept
\* among the failed jobs.
C33_OtherFailureLeavesRow ==
  [][(/\ renewal' # renewal
      /\ renewal'.called
      /\ renewal'.before # {}
      /\ renewal'.patch # Ok
      /\ ~RenewalRejected') =>
       /\ renewal'.threw
       /\ renewal'.after = renewal'.before
       /\ webhookSubscription' = webhookSubscription
       /\ provider' = provider
       /\ syncQueue'.completed = syncQueue.completed
       /\ \/ Len(syncQueue'.failed) = Len(syncQueue.failed) + 1
          \/ \E i \in 1..Len(syncQueue'.wait) :
               /\ syncQueue'.wait[i].accountId = renewal'.accountId
               /\ syncQueue'.wait[i].attemptsMade > 0]_vars

\* A renew met a 503 or got no token: it threw and the row it found is still
\* the account's row.
C33_Witness ==
  /\ renewal.called
  /\ renewal.before # {}
  /\ renewal.patch.status \in {0, 503}
  /\ renewal.threw
  /\ renewal.after = renewal.before
  /\ renewal.before \subseteq webhookSubscription

\* ---------------------------------------------------------------------------
\* The accounts a planner run finds: those without a subscription and those
\* whose subscription is inside the horizon.
PlannerFinds ==
  getAccountsNeedingSubscription(mailAccount, webhookSubscription)
    \cup {s.accountId : s \in getExpiringSubscriptions(webhookSubscription, now)}

\* C34: every planner run leaves a create or renew job waiting for each
\* account it found, whether or not an earlier job of the same id has
\* completed or failed.
C34_PlannedWorkIsQueued ==
  [][(planDue /\ ~planDue') =>
       \A a \in PlannerFinds :
         \E i \in 1..Len(syncQueue'.wait) : syncQueue'.wait[i].accountId = a]_vars

\* ---------------------------------------------------------------------------
\* C35: a forward call is made only for an account that is CONNECTED and
\* enabled at the time of the call, whatever it was when the job was queued.
C35_ForwardOnlyWhileActive ==
  [][\A p \in Accounts \X Messages :
       forwardCalls'[p] > forwardCalls[p] =>
         AccountActive(mailAccount[p[1]])]_vars

\* ---------------------------------------------------------------------------
(* getValidAccessToken under overlapping calls *)

\* The locals of a call: the account, the tokenRecord it read, whether it
\* sent a refresh exchange and whether it threw.
TokenCall(pc, accountId, tokenRecord) ==
  [ pc |-> pc, accountId |-> accountId, tokenRecord |-> tokenRecord,
    refreshed |-> FALSE, threw |-> FALSE ]

tokenRest ==
  <<webhookSubscription, deliveryVars, upkeepVars, tokenCall, filterVars,
    schedule, sweepVars, edgeVars, systemSetting, forwardToCache>>

\* getValidAccessToken(accountId), up to the await of the refresh: the row is
\* read; without one the call throws, with a token that is good for more than
\* the buffer it returns, and otherwise the exchange comes next.
TokenRead(c, a) ==
  /\ serviceCalls[c].pc \in {"idle", "returned"}
  /\ LET tokenRecord == mailToken[a]
     IN  serviceCalls' = [serviceCalls EXCEPT ![c] =
           IF tokenRecord = NoToken
           THEN [TokenCall("returned", a, tokenRecord) EXCEPT !.threw = TRUE]
           ELSE IF ~TokenNeedsRefresh(tokenRecord, now)
           THEN TokenCall("returned", a, tokenRecord)
           ELSE TokenCall("refresh", a, tokenRecord)]
  /\ UNCHANGED <<mailAccount, mailToken, refreshCalls, tokenRest>>

\* The rest of the call: refreshAccessToken with the refresh token read and
\* storeTokens, or the catch that marks the account and throws.
TokenExchange(c) ==
  /\ serviceCalls[c].pc = "refresh"
  /\ refreshCalls < MaxRefresh
  /\ refreshCalls' = refreshCalls + 1
  /\ \E response \in TokenResponses(refreshCalls + 1) :
       LET a == serviceCalls[c].accountId
           newTokens == refreshAccessToken(response)
       IN  IF newTokens.ok
           THEN /\ mailToken' = [mailToken EXCEPT ![a] =
                     storeTokens(@, newTokens, now)]
                /\ serviceCalls' = [serviceCalls EXCEPT ![c] =
                     [@ EXCEPT !.pc = "returned", !.refreshed = TRUE]]
                /\ UNCHANGED mailAccount
           ELSE /\ mailAccount' = [mailAccount EXCEPT ![a] =
                     MarkNeedsReauth(@, newTokens.error)]
                /\ serviceCalls' = [serviceCalls EXCEPT ![c] =
                     [@ EXCEPT !.pc = "returned", !.refreshed = TRUE,
                               !.threw = TRUE]]
                /\ UNCHANGED mailToken
  /\ UNCHANGED tokenRest

NextOverlap ==
  \/ \E c \in Callers, a \in Accounts : TokenRead(c, a)
  \/ \E c \in Callers : TokenExchange(c)
  \/ TokenClockTick

SpecOverlap == InitToken /\ [][NextOverlap]_vars

\* C36: no two calls for the same account both exchange the refresh token of
\* the same stored credential, the first having stored its new tokens.
C36_OneExchangePerCredential ==
  \A c1, c2 \in Callers :
    (/\ c1 # c2
     /\ serviceCalls[c1].pc = "returned"
     /\ serviceCalls[c2].pc = "returned"
     /\ serviceCalls[c1].refreshed
     /\ serviceCalls[c2].refreshed
     /\ serviceCalls[c1].accountId = serviceCalls[c2].accountId
     /\ serviceCalls[c1].tokenRecord = serviceCalls[c2].tokenRecord)
      => (serviceCalls[c1].threw /\ serviceCalls[c2].threw)

\* ---------------------------------------------------------------------------
\* C37: a row of the ledger that is FORWARDED stays FORWARDED, whatever is
\* written for its account and message afterwards.
C37_ForwardedIsFinal ==
  [][\A row \in mailMessageLog :
       row.forwardStatus = "FORWARDED" =>
         \A later \in LogRows(mailMessageLog', row.accountId,
                              row.graphMessageId) :
           later.forwardStatus = "FORWARDED"]_vars

\* ---------------------------------------------------------------------------
\* C38: two sweeps in flight never both forward the same row of the ledger.
C38_OneSweepPerRecord ==
  \A s1, s2 \in Sweepers :
    (/\ s1 # s2
     /\ sweep[s1].pc = "update"
     /\ sweep[s2].pc = "update"
     /\ Head(sweep[s1].failedMessages).id = Head(sweep[s2].failedMessages).id)
      => ~(sweep[s1].error = NoError /\ sweep[s2].error = NoError)

\* ---------------------------------------------------------------------------
(* The forwarding address: getForwardToEmail and POST /config *)

\* The cache is served for 300000 ms, in minutes.
CacheMinutes == 5

\* How far the clock runs while the address is followed.
ConfigClock == 6

\* config.forwarding.toEmail || "fwd@example.com"
DefaultForwardTo == "fwd@example.com"

\* setting?.value || config.forwarding.toEmail || "fwd@example.com"
EffectiveForwardTo(setting) ==
  IF setting # NoValue THEN setting ELSE DefaultForwardTo

\* The forwardToEmail of a request body: missing, not an address, or an
\* address; emailRegex accepts the addresses.
ConfigBodies == ForwardTargets \cup {NoValue, "ops"}

IsEmail(forwardToEmail) == forwardToEmail \in ForwardTargets

\* if (this._forwardToCache && now - this._forwardToCacheTime < 300000)
CacheServes(cache, t) ==
  cache.value # NoValue /\ t - cache.time < CacheMinutes

\* The locals of a getForwardToEmail call (`now`, the setting read, the
\* address returned) and of a POST /config request (the address, the status
\* of the response).
AddressCall(pc) ==
  [ pc |-> pc, startedAt |-> 0, setting |-> NoValue, result |-> NoValue,
    forwardToEmail |-> NoValue, status |-> 0 ]

addressRest ==
  <<mailAccount, webhookSubscription, deliveryVars, validated, planDue,
    syncQueue, provider, issued, faults, renewal, tokenVars, filterVars,
    schedule, sweepVars, edgeVars>>

\* getForwardToEmail, up to its await: the cached address is returned while
\* the cache serves, otherwise the setting is asked for.
GetForwardToEmail(c) ==
  /\ serviceCalls[c].pc \in {"idle", "returned", "responded"}
  /\ serviceCalls' = [serviceCalls EXCEPT ![c] =
       IF CacheServes(forwardToCache, now)
       THEN [AddressCall("returned") EXCEPT !.startedAt = now,
                                            !.result = forwardToCache.value]
       ELSE [AddressCall("query") EXCEPT !.startedAt = now]]
  /\ UNCHANGED <<systemSetting, forwardToCache, now, addressRest>>

\* prisma.systemSetting.findUnique: the database reads the row.
GetForwardQuery(c) ==
  /\ serviceCalls[c].pc = "query"
  /\ serviceCalls' = [serviceCalls EXCEPT ![c] =
       [@ EXCEPT !.pc = "assign", !.setting = systemSetting]]
  /\ UNCHANGED <<systemSetting, forwardToCache, now, addressRest>>

\* getForwardToEmail after its await: the cache is filled with what was read
\* and stamped with the time the call began.
GetForwardAssign(c) ==
  /\ serviceCalls[c].pc = "assign"
  /\ LET value == EffectiveForwardTo(serviceCalls[c].setting)
     IN  /\ forwardToCache' =
              [value |-> value, time |-> serviceCalls[c].startedAt]
         /\ serviceCalls' = [serviceCalls EXCEPT ![c] =
              [@ EXCEPT !.pc = "returned", !.result = value]]
  /\ UNCHANGED <<systemSetting, now, addressRest>>

\* router.post("/config"), up to its first await: a missing address or one
\* that is not an address is answered 400, otherwise the upsert is sent.
PostConfig(c, forwardToEmail) ==
  /\ serviceCalls[c].pc \in {"idle", "returned", "responded"}
  /\ serviceCalls' = [serviceCalls EXCEPT ![c] =
       IF forwardToEmail = NoValue \/ ~IsEmail(forwardToEmail)
       THEN [AddressCall("responded") EXCEPT !.status = 400]
       ELSE [AddressCall("upsert") EXCEPT !.forwardToEmail = forwardToEmail]]
  /\ UNCHANGED <<systemSetting, forwardToCache, now, addressRest>>

\* prisma.systemSetting.upsert: the database writes the row.
ConfigUpsert(c) ==
  /\ serviceCalls[c].pc = "upsert"
  /\ systemSetting' = serviceCalls[c].forwardToEmail
  /\ serviceCalls' = [serviceCalls EXCEPT ![c].pc = "clear"]
  /\ UNCHANGED <<forwardToCache, now, addressRest>>

\* The handler after the upsert: clearForwardToCache(), and the log entry is
\* sent.
ConfigClear(c) ==
  /\ serviceCalls[c].pc = "clear"
  /\ forwardToCache' = EmptyCache
  /\ serviceCalls' = [serviceCalls EXCEPT ![c].pc = "log"]
  /\ UNCHANGED <<systemSetting, now, addressRest>>

\* The handler after the log entry: the response.
ConfigRespond(c) ==
  /\ serviceCalls[c].pc = "log"
  /\ serviceCalls' = [serviceCalls EXCEPT ![c] =
       [@ EXCEPT !.pc = "responded", !.status = 200]]
  /\ UNCHANGED <<systemSetting, forwardToCache, now, addressRest>>

\* A minute passes.
ConfigClockTick ==
  /\ now < ConfigClock
  /\ now' = now + 1
  /\ UNCHANGED <<serviceCalls, systemSetting, forwardToCache, addressRest>>

\* One process, with no address set or with one set earlier, and an empty
\* cache.
InitConfig ==
  /\ mailAccount = [a \in Accounts |-> AccountRow("CONNECTED", TRUE)]
  /\ webhookSubscription = {}
  /\ forwardQueue = EmptyQueue
  /\ InitDelivery
  /\ InitUpkeep
  /\ InitTokenStore
  /\ InitFilter
  /\ InitSchedule
  /\ InitSweep
  /\ mailbox = [a \in Accounts |-> Messages]
  /\ mailSyncState = Accounts
  /\ oauth = NoOAuth
  /\ pollQueue = EmptyPollQueue
  /\ cycle = [c \in Cycles |-> IdleCycle]
  /\ serviceCalls = [c \in Callers |-> IdleCall]
  /\ systemSetting \in ForwardTargets \cup {NoValue}
  /\ forwardToCache = EmptyCache

NextConfig ==
  \/ \E c \in Callers : GetForwardToEmail(c)
  \/ \E c \in Callers : GetForwardQuery(c)
  \/ \E c \in Callers : GetForwardAssign(c)
  \/ \E c \in Callers, forwardToEmail \in ConfigBodies :
       PostConfig(c, forwardToEmail)
  \/ \E c \in Callers : ConfigUpsert(c)
  \/ \E c \in Callers : ConfigClear(c)
  \/ \E c \in Callers : ConfigRespond(c)
  \/ ConfigClockTick

SpecConfig == InitConfig /\ [][NextConfig]_vars

\* C39: a getForwardToEmail call that starts while no update stands between
\* its upsert and its clearForwardToCache, and that is answered from the
\* cache, returns the address the setting holds.
C39_NewAddressAfterUpdate ==
  [][\A c \in Callers :
       (/\ serviceCalls[c].pc \in {"idle", "returned", "responded"}
        /\ serviceCalls'[c].pc = "returned"
        /\ serviceCalls'[c] # serviceCalls[c]
        /\ \A d \in Callers : serviceCalls[d].pc # "clear") =>
         serviceCalls'[c].result = EffectiveForwardTo(systemSetting)]_vars

\* ---------------------------------------------------------------------------
(* syncMailbox beside the token refresh *)

\* How many messages a delta answer carries at most.
MaxFound == 1

\* How far forwardedCount and errorCount are followed.
MaxForwarded == 1

MaxErrors == 1

\* What graphService.getDeltaMessages raises when the provider refuses the
\* request or cannot be reached: the error's response status and message.
DeltaFaults ==
  { [status |-> 401, message |-> "InvalidAuthenticationToken"],
    [status |-> 503, message |-> "Request failed with status code 503"] }

\* error.message.includes("Token refresh failed") ||
\* error.message.includes("InvalidAuthenticationToken") ||
\* error.message.includes("token") || error.response?.status === 401,
\* over the messages that occur.
needsReauth(error) ==
  \/ error.message \in {"InvalidAuthenticationToken"}
  \/ error.status = 401

\* The closing update of a run that did not throw: lastError null,
\* errorCount 0, status CONNECTED.
Synced(account) ==
  [account EXCEPT !.lastError = NoValue, !.errorCount = 0,
                  !.status = "CONNECTED"]

\* The update of the catch block, computed from the row the run read first.
SyncFailed(row, account, error) ==
  [row EXCEPT !.lastError = error.message,
              !.errorCount = account.errorCount + 1,
              !.status = IF needsReauth(error) THEN "NEEDS_REAUTH"
                         ELSE account.status]

\* The locals of a run: the account row read first, the messages found, the
\* error caught. They are gone when the run has returned.
SyncCall(pc, accountId, account) ==
  [ pc |-> pc, accountId |-> accountId, account |-> account, found |-> 0,
    error |-> [status |-> -1, message |-> ""], skipped |-> FALSE ]

syncRest == <<mailToken, refreshCalls, tokenRest>>

\* syncMailbox(accountId), up to the delta request: the account is read, and
\* only a CONNECTED or ERROR account is synced.
SyncMailbox(c, a) ==
  /\ serviceCalls[c].pc \in {"idle", "returned"}
  /\ LET account == mailAccount[a]
     IN  serviceCalls' = [serviceCalls EXCEPT ![c] =
           IF account.status # "CONNECTED" /\ account.status # "ERROR"
           THEN [SyncCall("returned", a, NoValue) EXCEPT !.skipped = TRUE]
           ELSE SyncCall("delta", a, account)]
  /\ UNCHANGED <<mailAccount, syncRest>>

\* graphService.getDeltaMessages answers: messages, or an error that is
\* caught.
SyncDelta(c) ==
  /\ serviceCalls[c].pc = "delta"
  /\ \/ \E found \in 0..MaxFound :
          serviceCalls' = [serviceCalls EXCEPT ![c] =
            [@ EXCEPT !.pc = IF found = 0 THEN "update" ELSE "process",
                      !.found = found]]
     \/ /\ serviceCalls[c].account.errorCount < MaxErrors
        /\ \E error \in DeltaFaults :
             serviceCalls' = [serviceCalls EXCEPT ![c] =
               [@ EXCEPT !.pc = "catch", !.error = error]]
  /\ UNCHANGED <<mailAccount, syncRest>>

\* The messages found are processed; each one forwarded adds one to the
\* account's forwardedCount, and none failing stops the run.
SyncProcess(c) ==
  /\ serviceCalls[c].pc = "process"
  /\ \E forwarded \in 0..serviceCalls[c].found :
       /\ mailAccount[serviceCalls[c].accountId].forwardedCount + forwarded
            <= MaxForwarded
       /\ mailAccount' =
            [mailAccount EXCEPT ![serviceCalls[c].accountId] =
               [@ EXCEPT !.forwardedCount = @ + forwarded]]
  /\ serviceCalls' = [serviceCalls EXCEPT ![c].pc = "update"]
  /\ UNCHANGED syncRest

\* The closing prisma.mailAccount.update of the run.
SyncUpdate(c) ==
  /\ serviceCalls[c].pc = "update"
  /\ mailAccount' = [mailAccount EXCEPT ![serviceCalls[c].accountId] =
       Synced(@)]
  /\ serviceCalls' = [serviceCalls EXCEPT ![c] =
       SyncCall("returned", @.accountId, NoValue)]
  /\ UNCHANGED syncRest

\* catch: the account is updated from the error and the row read first; the
\* notification follows and the result is returned.
SyncCatch(c) ==
  /\ serviceCalls[c].pc = "catch"
  /\ mailAccount' = [mailAccount EXCEPT ![serviceCalls[c].accountId] =
       SyncFailed(@, serviceCalls[c].account, serviceCalls[c].error)]
  /\ serviceCalls' = [serviceCalls EXCEPT ![c] =
       SyncCall("returned", @.accountId, NoValue)]
  /\ UNCHANGED syncRest

\* The tokens stored at the start are inside the buffer: the next call for
\* the account refreshes.
SyncExpiries == {4}

InitSync ==
  /\ mailAccount = [a \in Accounts |-> AccountRow("CONNECTED", TRUE)]
  /\ webhookSubscription = {}
  /\ forwardQueue = EmptyQueue
  /\ InitDelivery
  /\ InitUpkeep
  /\ mailToken \in [Accounts ->
       { [accessToken |-> "at0", refreshToken |-> "rt0", expiresAt |-> e] :
           e \in SyncExpiries }]
  /\ tokenCall = NoTokenCall
  /\ refreshCalls = 0
  /\ InitFilter
  /\ InitSchedule
  /\ InitSweep
  /\ InitEdge

NextSync ==
  \/ \E c \in Callers, a \in Accounts : SyncMailbox(c, a)
  \/ \E c \in Callers : SyncDelta(c)
  \/ \E c \in Callers : SyncProcess(c)
  \/ \E c \in Callers : SyncUpdate(c)
  \/ \E c \in Callers : SyncCatch(c)
  \/ \E c \in Callers, a \in Accounts : TokenRead(c, a)
  \/ \E c \in Callers : TokenExchange(c)

SpecSync == InitSync /\ [][NextSync]_vars

\* C40: an account in NEEDS_REAUTH becomes CONNECTED only in the step that
\* completes an OAuth flow.
C40_ReconnectOnlyByOAuth ==
  [][\A a \in Accounts :
       (mailAccount[a].status = "NEEDS_REAUTH"
        /\ mailAccount'[a].status = "CONNECTED") =>
         (~oauth.completed /\ oauth'.completed)]_vars

====
